---- MODULE Spec2Model ----
(***************************************************************************)
(* StokerZ: the product list's table controller (useTableControls) as it   *)
(* is driven by the application shell (App) and the ProductList screen.    *)
(*                                                                         *)
(* JavaScript values are modelled as tagged records [t, v] so that         *)
(* truthiness (the || defaults of getInitialState) is computed as the      *)
(* runtime computes it.  The strings the code searches or orders (search   *)
(* terms, names, SKUs, dates) are sequences of one-character strings; the  *)
(* strings it only compares for equality (categories, sort keys, sort      *)
(* directions) are atoms, tagged "name".                                   *)
(***************************************************************************)
EXTENDS Integers, Sequences, FiniteSets, TLC

VARIABLES
    products,           \* App: products state (sequence of Product records)
    currentView,        \* App: currentView state
    initialSearchTerm,  \* App: initialSearchTerm state (last barcode scanned)
    tableState,         \* useTableControls: tableState (Unmounted when no ProductList)
    storage,            \* localStorage entry under TABLE_STATE_KEY
    lastSaved,          \* the tableState object last serialized by the persist effect
    savedBy,            \* the handler whose update the persist effect last saved
    renderError,        \* a render threw: React has unmounted the whole tree
    quotaExceeded,      \* localStorage.setItem throws (the store is full)
    records,            \* the array prop of the other list screens (vendors, purchaseOrders, ...)
    listState,          \* tableState of the list screen that currentView names
    selectedIds,        \* ProductList: selectedIds state (ids of the ticked rows)
    database,           \* the backend: rows of the products, requests, stock_adjustments and users tables
    channel,            \* realtime events on their way to each browser session, oldest first
    users,              \* App: users state of each session
    currentUser         \* App: currentUser state of each session

vars == <<products, currentView, initialSearchTerm, tableState, storage, lastSaved, savedBy,
          renderError, quotaExceeded, records, listState, selectedIds,
          database, channel, users, currentUser>>

\* what belongs to the backend and to the sessions' knowledge of the users
remote == <<database, channel, users, currentUser>>

----------------------------------------------------------------------------
(* Bounds of the model *)

MaxProducts == 3        \* size of the product catalogue the backend can hold
MaxPageInput == 3       \* largest page number handed to setCurrentPage
ItemsPerPage == 2       \* the itemsPerPage argument of useTableControls (ProductList passes 10)
MaxUsers == 2           \* rows of the users table
MaxRecords == 3         \* size of the collection a list screen is given

----------------------------------------------------------------------------
(* JavaScript values *)

Str(s) == [t |-> "string", v |-> s]
Name(s) == [t |-> "name", v |-> s]
Num(n) == [t |-> "number", v |-> n]
Obj(o) == [t |-> "object", v |-> o]
Arr(a) == [t |-> "array", v |-> a]
Null == [t |-> "null", v |-> 0]
Undefined == [t |-> "undefined", v |-> 0]

Empty == Str(<<>>)

\* ToBoolean
Truthy(x) ==
    CASE x.t = "string" -> x.v # <<>>
      [] x.t = "name" -> x.v # ""
      [] x.t = "number" -> x.v # 0
      [] x.t = "object" -> TRUE
      [] x.t = "array" -> TRUE
      [] x.t = "json" -> TRUE
      [] x.t = "text" -> x.v # ""
      [] OTHER -> FALSE

\* a || b
Or(a, b) == IF Truthy(a) THEN a ELSE b

\* a === b
StrictEq(a, b) == a.t = b.t /\ a.v = b.v

\* x.name for a property every object of the model has; undefined on a
\* string, a number or an array
Prop(x, name) == IF x.t = "object" THEN x.v[name] ELSE Undefined

----------------------------------------------------------------------------
(* Strings *)

Alphabet ==
    <<"+", "-", "/", "0", "1", "2", "3", "4", "5", "6", "7", "8", "9",
      "A", "B", "C", "D", "E", "F", "T",
      "a", "b", "c", "d", "e", "f", "k", "l", "t", "z">>

CharCode(c) == CHOOSE i \in 1..Len(Alphabet) : Alphabet[i] = c

LowerChar(c) ==
    CASE c = "A" -> "a" [] c = "B" -> "b" [] c = "C" -> "c"
      [] c = "D" -> "d" [] c = "E" -> "e" [] c = "F" -> "f"
      [] c = "T" -> "t"
      [] OTHER -> c

\* String.prototype.toLowerCase
toLowerCase(s) == [i \in 1..Len(s) |-> LowerChar(s[i])]

\* String.prototype.includes
includes(s, sub) ==
    \E i \in 0..(Len(s) - Len(sub)) : SubSeq(s, i + 1, i + Len(sub)) = sub

\* the < operator on two strings: code-unit lexicographic order
StrLess(a, b) ==
    \E i \in 1..(Len(b)) :
        /\ i <= Len(a) + 1
        /\ \A j \in 1..(i - 1) : a[j] = b[j]
        /\ \/ i = Len(a) + 1
           \/ (i <= Len(a) /\ CharCode(a[i]) < CharCode(b[i]))

ALL == "all"

----------------------------------------------------------------------------
(* Dates.  An instant is [h, ms]: whole hours since 0000-03-01T00:00Z of   *)
(* the proleptic Gregorian calendar and the milliseconds into that hour.   *)
(* An ISO-8601 timestamp of 2024 is written without its year, minutes and  *)
(* seconds: "mm-ddThh+oo" for 2024-mm-ddThh:00:00+oo:00.                    *)

Instant(h, ms) == [h |-> h, ms |-> ms]

\* a < b and a > b on two Date objects (or two getTime() values)
Before(a, b) == a.h < b.h \/ (a.h = b.h /\ a.ms < b.ms)

IsDigit(c) == c \in {"0", "1", "2", "3", "4", "5", "6", "7", "8", "9"}

DigitValue(c) == CharCode(c) - CharCode("0")

\* parseInt(text, 10) of a text of digits
RECURSIVE parseInt(_)
parseInt(text) ==
    IF text = <<>> THEN 0
    ELSE 10 * parseInt(SubSeq(text, 1, Len(text) - 1)) + DigitValue(text[Len(text)])

\* day number of the civil date year-month-day (month 1..12)
DayNumber(year, month, day) ==
    LET y == IF month <= 2 THEN year - 1 ELSE year
        mp == (month + 9) % 12
        doy == (153 * mp + 2) \div 5 + day - 1
    IN  365 * y + y \div 4 - y \div 100 + y \div 400 + doy

\* the civil date of day doy (counted from March 1) of year yoe of a
\* 400-year era; mp is the month counted from March
CivilOfMonth(era, yoe, doy, mp) ==
    [year |-> yoe + era * 400 + (IF mp >= 10 THEN 1 ELSE 0),
     month |-> IF mp < 10 THEN mp + 3 ELSE mp - 9,
     day |-> doy - (153 * mp + 2) \div 5 + 1]

CivilOfDay(era, yoe, doy) == CivilOfMonth(era, yoe, doy, (5 * doy + 2) \div 153)

CivilOfYear(era, doe, yoe) ==
    CivilOfDay(era, yoe, doe - (365 * yoe + yoe \div 4 - yoe \div 100))

\* the civil date of day doe of a 400-year era
CivilOfEra(era, doe) ==
    CivilOfYear(era, doe, (doe - doe \div 1460 + doe \div 36524 - doe \div 146096) \div 365)

\* the civil date of a day number
CivilDate(days) == CivilOfEra(days \div 146097, days % 146097)

\* the browser's time zone, hours east of UTC (Asia/Jakarta)
TimezoneOffset == 7

\* new Date(isoString): the instant an ISO-8601 timestamp of 2024 names
DateOfIso(iso) ==
    LET month == parseInt(SubSeq(iso, 1, 2))
        day == parseInt(SubSeq(iso, 4, 5))
        hour == parseInt(SubSeq(iso, 7, 8))
        offset == parseInt(SubSeq(iso, 10, 11))
    IN  Instant(DayNumber(2024, month, day) * 24 + hour
                    - (IF iso[9] = "-" THEN 0 - offset ELSE offset), 0)

\* new Date(year, monthIndex, day): local midnight; a year of 0..99 means
\* 1900 + year, a month or day out of range carries over
NewDate(year, monthIndex, day) ==
    LET fullYear == IF year >= 0 /\ year <= 99 THEN 1900 + year ELSE year
        ym == fullYear + (monthIndex \div 12)
        mn == monthIndex % 12
    IN  Instant((DayNumber(ym, mn + 1, 1) + day - 1) * 24 - TimezoneOffset, 0)

\* the local calendar day a Date falls on
LocalDay(date) == (date.h + TimezoneOffset) \div 24

getFullYear(date) == CivilDate(LocalDay(date)).year
getMonth(date) == CivilDate(LocalDay(date)).month - 1
getDate(date) == CivilDate(LocalDay(date)).day

\* date.setHours(0, 0, 0, 0)
StartOfDay(date) == Instant(LocalDay(date) * 24 - TimezoneOffset, 0)

\* date.setHours(23, 59, 59, 999)
EndOfDay(date) == Instant(LocalDay(date) * 24 - TimezoneOffset + 23, 3599999)

\* /^\d{2}\/\d{2}\/\d{4}$/.test(dateString)
MatchesDDMMYYYY(dateString) ==
    /\ Len(dateString) = 10
    /\ \A i \in {1, 2, 4, 5, 7, 8, 9, 10} : IsDigit(dateString[i])
    /\ dateString[3] = "/" /\ dateString[6] = "/"

\* the last line of parseDDMMYYYY: the date if its fields are the ones
\* it was made of, or null
DateIfSame(date, year, month, day) ==
    IF getFullYear(date) = year /\ getMonth(date) = month /\ getDate(date) = day
    THEN [t |-> "date", v |-> date]
    ELSE Null

\* parseDDMMYYYY without the comparison of the fields
parseDDMMYYYY_unchecked(dateString) ==
    IF dateString = <<>> \/ ~MatchesDDMMYYYY(dateString) THEN Null
    ELSE LET day == parseInt(SubSeq(dateString, 1, 2))
             month == parseInt(SubSeq(dateString, 4, 5)) - 1
             year == parseInt(SubSeq(dateString, 7, 10))
         IN  [t |-> "date", v |-> NewDate(year, month, day)]

\* parseDDMMYYYY(dateString): a Date, or null
parseDDMMYYYY(dateString) ==
    IF dateString = <<>> \/ ~MatchesDDMMYYYY(dateString) THEN Null
    ELSE LET day == parseInt(SubSeq(dateString, 1, 2))
             month == parseInt(SubSeq(dateString, 4, 5)) - 1
             year == parseInt(SubSeq(dateString, 7, 10))
         IN  DateIfSame(NewDate(year, month, day), year, month, day)

----------------------------------------------------------------------------
(* The product catalogue *)

FirstLetters == <<"a", "b", "c", "d", "e", "f">>
SecondLetters == <<"B", "A", "a">>
CategoryNames == <<"f", "t">>
Digits == <<"0", "1", "2", "3", "4", "5", "6", "7", "8", "9">>

TwoDigits(n) == <<Digits[(n \div 10) + 1], Digits[(n % 10) + 1]>>

\* the ISO-8601 timestamp 2024-mm-ddThh:00:00+oo:00
IsoString(month, day, hour, offset) ==
    TwoDigits(month) \o <<"-">> \o TwoDigits(day) \o <<"T">> \o TwoDigits(hour)
        \o <<"+">> \o TwoDigits(offset)

\* the timestamp of record i, as the backend hands it over: odd ids are
\* stamped at 23:00 UTC, even ids at 03:00 of a zone seven hours ahead, so
\* that the strings of ids 3, 2, 1, 4 ascend while their instants do not
Timestamp(i) ==
    LET day == CASE i = 1 -> 3 [] i = 3 -> 1 [] OTHER -> i
    IN  IF i % 2 = 1 THEN IsoString(3, day, 23, 0) ELSE IsoString(3, day, 3, 7)

\* Product (types.ts); names are distinct and ordered as the ids are
Product(i) ==
    [ name |-> <<FirstLetters[((i - 1) % 6) + 1], SecondLetters[((i - 1) % 3) + 1]>>,
      id |-> i,
      sku |-> <<"k", Digits[(i % 10) + 1]>>,
      category |-> CategoryNames[((i - 1) % 2) + 1],
      quantity |-> IF i % 2 = 1 THEN 3 ELSE 10,
      lastUpdated |-> Timestamp(i) ]

ProductIds == 1..MaxProducts

----------------------------------------------------------------------------
(* TableState and its JSON form *)

ASC == "asc"
DESC == "desc"
KEY_NAME == "name"
KEY_QUANTITY == "quantity"
KEY_LASTUPDATED == "lastUpdated"

\* TableState (interface): a JS object with four properties
TableState(search, category, sort, page) ==
    [searchTerm |-> search, categoryFilter |-> category,
     sortConfig |-> sort, currentPage |-> page]

SortConfig(key, direction) == Obj([key |-> Name(key), direction |-> Name(direction)])

\* the sort every default of the hook names: { key: 'lastUpdated', direction: 'desc' }
DefaultSort == SortConfig(KEY_LASTUPDATED, DESC)

\* the value of tableState while no ProductList is mounted
Unmounted == TableState(Undefined, Undefined, Undefined, Undefined)

\* localStorage.getItem on a key that was never written
NoItem == Null

\* the value of listState while none of the other list screens is mounted
NoList == Null

\* JSON text: a value tree; an object is the sequence of its members in
\* the order they are written
JsonText(doc) == [t |-> "json", v |-> doc]

\* a stored text that is not JSON; the empty text is Text("")
Text(chars) == [t |-> "text", v |-> chars]

\* JSON.stringify of a property value
JsonOfValue(x) ==
    CASE x.t = "string" -> [t |-> "string", v |-> x.v]
      [] x.t = "name" -> [t |-> "name", v |-> x.v]
      [] x.t = "number" -> [t |-> "number", v |-> x.v]
      [] x.t = "object" ->
            LET props == << <<"key", x.v.key>>, <<"direction", x.v.direction>> >>
                kept == SelectSeq(props, LAMBDA m : m[2].t = "name")
            IN  [t |-> "object",
                 v |-> [i \in 1..Len(kept) |->
                            <<kept[i][1], [t |-> "name", v |-> kept[i][2].v]>>]]
      [] x.t = "array" -> [t |-> "array", v |-> x.v]
      [] OTHER -> [t |-> "null", v |-> 0]

\* JSON.stringify(tableState): the properties in the order of the object,
\* without those that are undefined
JsonStringify(s) ==
    LET props == << <<"searchTerm", s.searchTerm>>,
                    <<"categoryFilter", s.categoryFilter>>,
                    <<"sortConfig", s.sortConfig>>,
                    <<"currentPage", s.currentPage>> >>
        kept == SelectSeq(props, LAMBDA m : m[2].t # "undefined")
    IN  JsonText([t |-> "object",
                  v |-> [i \in 1..Len(kept) |-> <<kept[i][1], JsonOfValue(kept[i][2])>>]])

\* property lookup on a parsed JSON object: the last member of that name,
\* undefined when there is none
Member(members, name) ==
    LET hits == {i \in 1..Len(members) : members[i][1] = name}
    IN  IF hits = {} THEN Undefined
        ELSE members[CHOOSE i \in hits : \A j \in hits : j <= i][2]

\* JSON.parse of a property value
ValueOfJson(j) ==
    CASE j.t = "string" -> Str(j.v)
      [] j.t = "name" -> Name(j.v)
      [] j.t = "number" -> Num(j.v)
      [] j.t = "object" ->
            Obj([key |-> LET k == Member(j.v, "key")
                         IN  IF k.t = "name" THEN Name(k.v) ELSE Undefined,
                 direction |-> LET d == Member(j.v, "direction")
                               IN  IF d.t = "name" THEN Name(d.v) ELSE Undefined])
      [] j.t = "array" -> Arr(j.v)
      [] j.t = "null" -> Null
      [] OTHER -> Undefined

\* parsed.<name> for parsed = JSON.parse(item)
ParsedProp(item, name) ==
    IF item.v.t = "object" THEN ValueOfJson(Member(item.v.v, name)) ELSE Undefined

\* does JSON.parse(item) return (rather than throw)?
Parses(item) == item.t = "json"

\* does reading a property of JSON.parse(item) throw? (a property of null)
PropertyReadThrows(item) == item.v.t = "null"

\* getInitialState whose fallback leaves the sort unset
getInitialState_nullSort(initialSearch, item) ==
    IF Truthy(item) /\ Parses(item) /\ ~PropertyReadThrows(item)
    THEN TableState(Or(initialSearch, Or(ParsedProp(item, "searchTerm"), Empty)),
                    Or(ParsedProp(item, "categoryFilter"), Name(ALL)),
                    Or(ParsedProp(item, "sortConfig"), DefaultSort),
                    Or(ParsedProp(item, "currentPage"), Num(1)))
    ELSE TableState(Or(initialSearch, Empty), Name(ALL), Null, Num(1))

\* getInitialState(initialSearch), reading item = localStorage.getItem(TABLE_STATE_KEY);
\* whatever the try block throws ends in the defaults after the catch
getInitialState(initialSearch, item) ==
    IF Truthy(item) /\ Parses(item) /\ ~PropertyReadThrows(item)
    THEN TableState(Or(initialSearch, Or(ParsedProp(item, "searchTerm"), Empty)),
                    Or(ParsedProp(item, "categoryFilter"), Name(ALL)),
                    Or(ParsedProp(item, "sortConfig"), DefaultSort),
                    Or(ParsedProp(item, "currentPage"), Num(1)))
    ELSE TableState(Or(initialSearch, Empty), Name(ALL), DefaultSort, Num(1))

----------------------------------------------------------------------------
(* Derived data of useTableControls *)

\* a[key] ?? '' for the keys of Product the table can be sorted by
FieldOf(p, key) ==
    CASE StrictEq(key, Name(KEY_NAME)) -> Str(p.name)
      [] StrictEq(key, Name(KEY_QUANTITY)) -> Num(p.quantity)
      [] StrictEq(key, Name(KEY_LASTUPDATED)) -> Str(p.lastUpdated)
      [] OTHER -> Empty

\* does computing filteredData throw?  searchTerm.toLowerCase is called for
\* each product when searchTerm is truthy, and only strings have it
RenderThrows(initialData, s) ==
    /\ Len(initialData) > 0
    /\ Truthy(s.searchTerm)
    /\ s.searchTerm.t # "string"

\* the search comparing the text as it is typed
matchesSearch_caseSensitive(p, s) ==
    IF Truthy(s.searchTerm)
    THEN \/ includes(p.name, s.searchTerm.v)
         \/ includes(p.sku, s.searchTerm.v)
    ELSE TRUE

\* the predicate of initialData.filter(...)
matchesSearch(p, s) ==
    IF Truthy(s.searchTerm)
    THEN \/ includes(toLowerCase(p.name), toLowerCase(s.searchTerm.v))
         \/ includes(toLowerCase(p.sku), toLowerCase(s.searchTerm.v))
    ELSE TRUE

matchesCategory(p, s) ==
    \/ StrictEq(s.categoryFilter, Name(ALL))
    \/ StrictEq(Name(p.category), s.categoryFilter)

filteredData(initialData, s) ==
    SelectSeq(initialData, LAMBDA p : matchesSearch(p, s) /\ matchesCategory(p, s))

\* a comparator that never answers 0: equal keys are ordered by id, highest first
compare_tiesById(a, b, sortConfig) ==
    LET key == Prop(sortConfig, "key")
        asc == StrictEq(Prop(sortConfig, "direction"), Name(ASC))
        aValue == FieldOf(a, key)
        bValue == FieldOf(b, key)
        tie == IF a.id > b.id THEN -1 ELSE IF a.id < b.id THEN 1 ELSE 0
    IN  IF aValue.t = "string" /\ bValue.t = "string"
        THEN LET lowerA == toLowerCase(aValue.v)
                 lowerB == toLowerCase(bValue.v)
             IN  IF StrLess(lowerA, lowerB) THEN (IF asc THEN -1 ELSE 1)
                 ELSE IF StrLess(lowerB, lowerA) THEN (IF asc THEN 1 ELSE -1)
                 ELSE tie
        ELSE IF aValue.v < bValue.v THEN (IF asc THEN -1 ELSE 1)
             ELSE IF aValue.v > bValue.v THEN (IF asc THEN 1 ELSE -1)
             ELSE tie

\* the comparator handed to sortableItems.sort: negative, zero or positive
compare(a, b, sortConfig) ==
    LET key == Prop(sortConfig, "key")
        asc == StrictEq(Prop(sortConfig, "direction"), Name(ASC))
        aValue == FieldOf(a, key)
        bValue == FieldOf(b, key)
    IN  IF aValue.t = "string" /\ bValue.t = "string"
        THEN LET lowerA == toLowerCase(aValue.v)
                 lowerB == toLowerCase(bValue.v)
             IN  IF StrLess(lowerA, lowerB) THEN (IF asc THEN -1 ELSE 1)
                 ELSE IF StrLess(lowerB, lowerA) THEN (IF asc THEN 1 ELSE -1)
                 ELSE 0
        ELSE IF aValue.v < bValue.v THEN (IF asc THEN -1 ELSE 1)
             ELSE IF aValue.v > bValue.v THEN (IF asc THEN 1 ELSE -1)
             ELSE 0

\* Array.prototype.sort is stable: an element goes after every element that
\* does not compare greater than it
RECURSIVE StableSort(_, _)
StableSort(items, sortConfig) ==
    IF Len(items) <= 1 THEN items
    ELSE LET front == StableSort(SubSeq(items, 1, Len(items) - 1), sortConfig)
             x == items[Len(items)]
             k == Cardinality({i \in 1..Len(front) : compare(front[i], x, sortConfig) <= 0})
         IN  SubSeq(front, 1, k) \o <<x>> \o SubSeq(front, k + 1, Len(front))

sortedData(initialData, s) ==
    LET sortableItems == filteredData(initialData, s)
    IN  IF s.sortConfig.t # "null" THEN StableSort(sortableItems, s.sortConfig)
        ELSE sortableItems

\* the page count rounded down
pageCount_floor(initialData, s) ==
    Len(sortedData(initialData, s)) \div ItemsPerPage

\* Math.ceil(sortedData.length / itemsPerPage)
pageCount(initialData, s) ==
    (Len(sortedData(initialData, s)) + ItemsPerPage - 1) \div ItemsPerPage

Max(a, b) == IF a >= b THEN a ELSE b
Min(a, b) == IF a <= b THEN a ELSE b

\* the page paginatedData slices: Math.max(1, Math.min(currentPage, pageCount || 1))
validCurrentPage(initialData, s) ==
    LET pc == pageCount(initialData, s)
    IN  Max(1, Min(s.currentPage.v, IF pc # 0 THEN pc ELSE 1))

paginatedData(initialData, s) ==
    LET sorted == sortedData(initialData, s)
        startIndex == (validCurrentPage(initialData, s) - 1) * ItemsPerPage
    IN  SubSeq(sorted, startIndex + 1, Min(startIndex + ItemsPerPage, Len(sorted)))

\* the page-reset effect: one pass, after which its condition is false
ResetPageEffect(initialData, s) ==
    LET pc == pageCount(initialData, s)
    IN  IF s.currentPage.v > pc /\ pc > 0
        THEN [s EXCEPT !.currentPage = Num(1)]
        ELSE s

----------------------------------------------------------------------------
(* Inputs *)

\* search terms typed into the search box
SearchTerms == {<<>>, <<"A">>, <<"b">>}

\* the text the barcode scanner decodes (never empty)
BarcodeTexts == {<<"A">>}

\* values handed to setCategoryFilter
CategoryValues == {ALL, "f", ""}

\* column headers of the product table
SortKeys == {KEY_NAME, KEY_QUANTITY}

\* absolute page numbers handed to setCurrentPage
PageInputs == 0..MaxPageInput

\* the product list and one view of App without it
Views == {"dashboard", "inventory"}

----------------------------------------------------------------------------
(* App: the products collection *)

\* a.name.localeCompare(b.name) < 0: letters first, lower case first on a tie
NameBefore(a, b) ==
    LET la == toLowerCase(a.name)
        lb == toLowerCase(b.name)
    IN  \/ StrLess(la, lb)
        \/ (la = lb /\ StrLess(b.name, a.name))

\* sortByName: [...arr].sort((a, b) => a.name.localeCompare(b.name))
RECURSIVE sortByName(_)
sortByName(arr) ==
    IF Len(arr) <= 1 THEN arr
    ELSE LET front == sortByName(SubSeq(arr, 1, Len(arr) - 1))
             x == arr[Len(arr)]
             k == Cardinality({i \in 1..Len(front) : ~NameBefore(x, front[i])})
         IN  SubSeq(front, 1, k) \o <<x>> \o SubSeq(front, k + 1, Len(front))

\* the rows of the products table, .order('name', { ascending: true })
RECURSIVE Rows(_)
Rows(ids) ==
    IF ids = {} THEN <<>>
    ELSE LET i == CHOOSE x \in ids : \A y \in ids : y <= x
         IN  sortByName(Rows(ids \ {i}) \o <<Product(i)>>)

IdsOf(arr) == {arr[i].id : i \in 1..Len(arr)}

----------------------------------------------------------------------------
(* State *)

\* a ProductList is on the screen
Mounted == currentView = "inventory" /\ ~renderError

\* the browser sessions: the App whose screens are modelled is session 1,
\* session 2 is the App of another user
Sessions == {1, 2}

UserIds == 1..MaxUsers

RequestIds == 1..MaxRecords

\* UserRole (types.ts)
VIEWER == "Viewer"
STAFF == "Staff"
SUPERVISOR == "Supervisor"
MANAGER == "Manager"
SUPER_ADMIN == "Super Admin"

\* APPROVER_ROLES of RequestList, the roles App lets into admin and audit-log
ApproverRoles == {SUPERVISOR, MANAGER, SUPER_ADMIN}

\* the role a users table holds for an id that has no row
NoRole == "none"

\* User (types.ts); user i is named so that usernames ascend with the ids
User(i, role) == [id |-> i, role |-> role]

\* select('*') on the users table, in the order of sortByUsername
RECURSIVE UserRows(_, _)
UserRows(roles, upTo) ==
    IF upTo = 0 THEN <<>>
    ELSE UserRows(roles, upTo - 1)
             \o (IF roles[upTo] = NoRole THEN <<>> ELSE <<User(upTo, roles[upTo])>>)

\* the tables as loadAppData finds them when nobody has written yet
Tables(roles) ==
    [ users |-> roles,
      quantity |-> [i \in ProductIds |-> Product(i).quantity],
      requests |-> [i \in RequestIds |-> "Pending Approval"],
      adjustments |-> <<>> ]

\* every session holds the users table as it is, and is signed in as the
\* user of its own number
Remote(roles) ==
    /\ database = Tables(roles)
    /\ channel = [s \in Sessions |-> <<>>]
    /\ users = [s \in Sessions |-> UserRows(roles, MaxUsers)]
    /\ currentUser = [s \in Sessions |-> User(s, roles[s])]

\* the backend of an installation whose users are all Super Admins
InitRemote == Remote([i \in UserIds |-> SUPER_ADMIN])

Init ==
    /\ products = <<>>
    /\ currentView = "dashboard"
    /\ initialSearchTerm = Empty
    /\ tableState = Unmounted
    /\ storage = NoItem
    /\ lastSaved = Unmounted
    /\ savedBy = "none"
    /\ renderError = FALSE
    /\ quotaExceeded = FALSE
    /\ records = <<>>
    /\ listState = NoList
    /\ selectedIds = {}
    /\ InitRemote

\* setTableState(s) followed by the render it causes and the effects of
\* that render: the page-reset effect, then the persist effect on the
\* state it leaves
\* an error thrown while rendering is caught by nothing: React unmounts the
\* tree, no effect of that render runs
RenderFails ==
    /\ renderError' = TRUE
    /\ tableState' = Unmounted
    /\ selectedIds' = {}
    /\ UNCHANGED <<storage, lastSaved, savedBy>>

\* the selection effect of ProductList, [searchTerm, categoryFilter,
\* currentPage, products]: the selection is emptied when the render of s
\* over initialData, or the page reset that follows it, changes one of them
SelectionAfter(initialData, s) ==
    IF /\ Mounted
       /\ s.searchTerm = tableState.searchTerm
       /\ s.categoryFilter = tableState.categoryFilter
       /\ s.currentPage = tableState.currentPage
       /\ initialData = products
       /\ ResetPageEffect(initialData, s) = s
    THEN selectedIds
    ELSE {}

\* the persist effect without its try/catch: the error of setItem is uncaught
Commit_uncaughtWrite(initialData, s, handler) ==
    IF RenderThrows(initialData, s) \/ quotaExceeded THEN RenderFails
    ELSE LET settled == ResetPageEffect(initialData, s)
         IN  /\ tableState' = settled
             /\ storage' = JsonStringify(settled)
             /\ lastSaved' = settled
             /\ savedBy' = handler
             /\ selectedIds' = SelectionAfter(initialData, s)
             /\ UNCHANGED renderError

Commit(initialData, s, handler) ==
    IF RenderThrows(initialData, s) THEN RenderFails
    ELSE LET settled == ResetPageEffect(initialData, s)
         IN  /\ tableState' = settled
             /\ storage' = IF quotaExceeded THEN storage ELSE JsonStringify(settled)
             /\ lastSaved' = settled
             /\ savedBy' = handler
             /\ selectedIds' = SelectionAfter(initialData, s)
             /\ UNCHANGED renderError

\* a render caused by new props only: the persist effect runs only when
\* the page-reset effect replaced tableState, the selection effect when the
\* products prop is another array than before
Rerender(initialData, handler, newArray) ==
    IF RenderThrows(initialData, tableState) THEN RenderFails
    ELSE IF ResetPageEffect(initialData, tableState) # tableState
        THEN Commit(initialData, tableState, handler)
        ELSE /\ selectedIds' = IF newArray THEN {} ELSE selectedIds
             /\ UNCHANGED <<tableState, storage, lastSaved, savedBy, renderError>>

\* first render of ProductList: useState(getInitialState(initialSearchTerm)),
\* then the initialSearchTerm effect, the page-reset and the persist effect
Mount(initialData, initialSearch, handler) ==
    LET initial == getInitialState(initialSearch, storage)
        forced == IF Truthy(initialSearch)
                  THEN [initial EXCEPT !.searchTerm = initialSearch]
                  ELSE initial
    IN  Commit(initialData, forced, handler)

----------------------------------------------------------------------------
(* useTableControls: the setters *)

AppUnchanged ==
    UNCHANGED <<products, currentView, initialSearchTerm, quotaExceeded, records, listState, remote>>

\* setSearchTerm without the page reset
setSearchTerm_keepsPage(term) ==
    /\ Mounted
    /\ Commit(products, [tableState EXCEPT !.searchTerm = Str(term)], "setSearchTerm")
    /\ AppUnchanged

setSearchTerm(term) ==
    /\ Mounted
    /\ Commit(products, [tableState EXCEPT !.searchTerm = Str(term), !.currentPage = Num(1)], "setSearchTerm")
    /\ AppUnchanged

setCategoryFilter(category) ==
    /\ Mounted
    /\ Commit(products, [tableState EXCEPT !.categoryFilter = Name(category), !.currentPage = Num(1)], "setCategoryFilter")
    /\ AppUnchanged

\* the toggle without the comparison of the keys
nextDirection_ignoresKey(current, key) ==
    IF /\ Truthy(current.sortConfig)
       /\ StrictEq(Prop(current.sortConfig, "direction"), Name(ASC))
    THEN DESC
    ELSE ASC

\* the direction requestSort(key) computes from the current state
nextDirection(current, key) ==
    IF /\ Truthy(current.sortConfig)
       /\ StrictEq(Prop(current.sortConfig, "key"), Name(key))
       /\ StrictEq(Prop(current.sortConfig, "direction"), Name(ASC))
    THEN DESC
    ELSE ASC

\* requestSort going back to the first page
requestSort_resetsPage(key) ==
    /\ Mounted
    /\ Commit(products, [tableState EXCEPT !.sortConfig = SortConfig(key, nextDirection(tableState, key)),
                                           !.currentPage = Num(1)], "requestSort")
    /\ AppUnchanged

requestSort(key) ==
    /\ Mounted
    /\ Commit(products, [tableState EXCEPT !.sortConfig = SortConfig(key, nextDirection(tableState, key))], "requestSort")
    /\ AppUnchanged

\* setCurrentPage(page) with an absolute page number
setCurrentPage(page) ==
    /\ Mounted
    /\ Commit(products, [tableState EXCEPT !.currentPage = Num(page)], "setCurrentPage")
    /\ AppUnchanged

\* the Previous button: setCurrentPage(prev => Math.max(prev - 1, 1))
PreviousPage ==
    /\ Mounted
    /\ pageCount(products, tableState) > 1
    /\ tableState.currentPage.v # 1
    /\ Commit(products, [tableState EXCEPT !.currentPage = Num(Max(tableState.currentPage.v - 1, 1))], "PreviousPage")
    /\ AppUnchanged

\* the Next button: setCurrentPage(prev => Math.min(prev + 1, pageCount))
NextPage ==
    /\ Mounted
    /\ pageCount(products, tableState) > 1
    /\ tableState.currentPage.v # pageCount(products, tableState)
    /\ Commit(products, [tableState EXCEPT !.currentPage =
                            Num(Min(tableState.currentPage.v + 1, pageCount(products, tableState)))], "NextPage")
    /\ AppUnchanged

\* resetFilters leaving the sort as it is
resetFilters_keepsSort ==
    /\ Mounted
    /\ Commit(products, [tableState EXCEPT !.searchTerm = Empty, !.categoryFilter = Name(ALL),
                                           !.currentPage = Num(1)], "resetFilters")
    /\ AppUnchanged

resetFilters ==
    /\ Mounted
    /\ Commit(products, TableState(Empty, Name(ALL), DefaultSort, Num(1)), "resetFilters")
    /\ AppUnchanged

----------------------------------------------------------------------------
(* App: navigation, the barcode scanner, the products collection *)

\* the two permission checks of handleSetCurrentView
ViewRefused(view) ==
    \/ /\ currentUser[1].role = VIEWER
       /\ view \in {"requests", "purchase-orders", "admin", "reports", "audit-log", "adjustments"}
    \/ /\ view \in {"admin", "audit-log"}
       /\ currentUser[1].role \notin ApproverRoles

\* handleSetCurrentView(view); the list screens other than ProductList keep
\* their state in records and listState, which the specifications of those
\* screens start with
handleSetCurrentView(view) ==
    /\ ~renderError
    /\ IF ViewRefused(view)
       THEN UNCHANGED <<currentView, tableState, storage, lastSaved, savedBy, renderError,
                        selectedIds, records, listState>>
       ELSE /\ currentView' = view
            /\ IF view = "inventory" /\ ~Mounted
               THEN Mount(products, initialSearchTerm, "handleSetCurrentView")
               ELSE IF view # "inventory" /\ Mounted
               THEN /\ tableState' = Unmounted
                    /\ selectedIds' = {}
                    /\ UNCHANGED <<storage, lastSaved, savedBy, renderError>>
               ELSE UNCHANGED <<tableState, storage, lastSaved, savedBy, renderError, selectedIds>>
            /\ UNCHANGED <<records, listState>>
    /\ UNCHANGED <<products, initialSearchTerm, quotaExceeded, remote>>

handleBarcodeScanned(decodedText) ==
    /\ ~renderError
    /\ currentView' = "inventory"
    /\ initialSearchTerm' = Str(decodedText)
    /\ IF ~Mounted
       THEN Mount(products, Str(decodedText), "handleBarcodeScanned")
       ELSE IF initialSearchTerm # Str(decodedText)
       THEN \* the initialSearchTerm effect of the mounted list
            Commit(products, [tableState EXCEPT !.searchTerm = Str(decodedText)],
                   "handleBarcodeScanned")
       ELSE UNCHANGED <<tableState, storage, lastSaved, savedBy, renderError, selectedIds>>
    /\ UNCHANGED <<products, quotaExceeded, records, listState, remote>>

\* ProductList receives a new products prop, if it is mounted
ProductListProps(newProducts, newArray) ==
    IF Mounted THEN Rerender(newProducts, "setProducts", newArray)
    ELSE UNCHANGED <<tableState, storage, lastSaved, savedBy, renderError, selectedIds>>

\* loadAppData: setProducts(productsData || []), the backend holding the
\* whole catalogue
loadAppData ==
    /\ ~renderError
    /\ products' = Rows(ProductIds)
    /\ ProductListProps(Rows(ProductIds), TRUE)
    /\ UNCHANGED <<currentView, initialSearchTerm, quotaExceeded, records, listState, remote>>

\* the INSERT handler without the test for the id
onProductInsert_noCheck(id) ==
    LET newProducts == sortByName(products \o <<Product(id)>>)
    IN  /\ ~renderError
        /\ products' = newProducts
        /\ ProductListProps(newProducts, TRUE)
        /\ UNCHANGED <<currentView, initialSearchTerm, quotaExceeded, records, listState, remote>>

\* realtime INSERT on products
onProductInsert(id) ==
    LET newProducts == IF id \in IdsOf(products) THEN products
                       ELSE sortByName(products \o <<Product(id)>>)
    IN  /\ ~renderError
        /\ products' = newProducts
        /\ ProductListProps(newProducts, id \notin IdsOf(products))
        /\ UNCHANGED <<currentView, initialSearchTerm, quotaExceeded, records, listState, remote>>

\* the row of product id after it has been renamed and its stock written off
UpdatedProduct(id) == [Product(id) EXCEPT !.name = <<"z">> \o @, !.quantity = 0]

\* prev.map(item => item.id === newRecord.id ? newRecord : item)
ReplaceById(prev, newRecord) ==
    [i \in 1..Len(prev) |-> IF prev[i].id = newRecord.id THEN newRecord ELSE prev[i]]

\* realtime UPDATE on products
onProductUpdate(newRecord) ==
    LET newProducts == sortByName(ReplaceById(products, newRecord))
    IN  /\ ~renderError
        /\ products' = newProducts
        /\ ProductListProps(newProducts, TRUE)
        /\ UNCHANGED <<currentView, initialSearchTerm, quotaExceeded, records, listState, remote>>

\* realtime DELETE on products
onProductDelete(id) ==
    LET newProducts == SelectSeq(products, LAMBDA item : item.id # id)
    IN  /\ ~renderError
        /\ products' = newProducts
        /\ ProductListProps(newProducts, TRUE)
        /\ UNCHANGED <<currentView, initialSearchTerm, quotaExceeded, records, listState, remote>>

\* the page is loaded again: App is constructed anew, localStorage is kept
Reload ==
    /\ products' = <<>>
    /\ currentView' = "dashboard"
    /\ initialSearchTerm' = Empty
    /\ tableState' = Unmounted
    /\ renderError' = FALSE
    /\ selectedIds' = {}
    /\ UNCHANGED <<storage, lastSaved, savedBy, quotaExceeded, records, listState, remote>>

Next ==
    \/ \E term \in SearchTerms : setSearchTerm(term)
    \/ \E category \in CategoryValues : setCategoryFilter(category)
    \/ \E key \in SortKeys : requestSort(key)
    \/ \E page \in PageInputs : setCurrentPage(page)
    \/ PreviousPage
    \/ NextPage
    \/ resetFilters
    \/ \E view \in Views : handleSetCurrentView(view)
    \/ \E text \in BarcodeTexts : handleBarcodeScanned(text)
    \/ loadAppData
    \/ \E id \in ProductIds : onProductInsert(id)
    \/ \E id \in ProductIds : onProductDelete(id)
    \/ Reload

Spec == Init /\ [][Next]_vars

----------------------------------------------------------------------------
(* Properties of the product list controller *)

DefaultState == TableState(Empty, Name(ALL), SortConfig(KEY_LASTUPDATED, DESC), Num(1))

\* C1: in every state of a mounted product list, currentPage lies in
\* [1, max(totalPages, 1)].
C1_CurrentPageInRange ==
    Mounted =>
        /\ tableState.currentPage.v >= 1
        /\ tableState.currentPage.v <= Max(pageCount(products, tableState), 1)

\* C2: setCurrentPage(p) ends with currentPage = p clamped into
\* [1, totalPages or 1], for the absolute form and for the updater forms
\* of the Previous and Next buttons.
C2_SetCurrentPageClamps ==
    [][ LET pc == pageCount(products, tableState)
            top == IF pc # 0 THEN pc ELSE 1
        IN  /\ \A page \in PageInputs :
                   setCurrentPage(page) =>
                       tableState'.currentPage = Num(Max(1, Min(page, top)))
            /\ (PreviousPage \/ NextPage) =>
                   /\ tableState'.currentPage.v >= 1
                   /\ tableState'.currentPage.v <= top ]_vars

\* C3: requestSort(key) flips the direction when key is the current sort
\* key and otherwise sorts by key ascending.
C3_SortToggle ==
    [][ \A key \in SortKeys :
            requestSort(key) =>
                LET cur == tableState.sortConfig.v
                    new == tableState'.sortConfig.v
                IN  /\ tableState'.sortConfig.t = "object"
                    /\ new.key = Name(key)
                    /\ IF cur.key = Name(key)
                       THEN \/ (cur.direction = Name(ASC) /\ new.direction = Name(DESC))
                            \/ (cur.direction = Name(DESC) /\ new.direction = Name(ASC))
                       ELSE new.direction = Name(ASC) ]_vars

\* requestSort has flipped an ascending sort to descending
C3_Witness ==
    /\ Mounted
    /\ savedBy = "requestSort"
    /\ tableState.sortConfig.v.direction = Name(DESC)

\* C4: setSearchTerm(term) sets searchTerm and page 1, setCategoryFilter(value)
\* sets categoryFilter and page 1, nothing else changes, and the text written
\* to storage is that state.
C4_SearchAndFilterSetters ==
    [][ /\ \A term \in SearchTerms :
               setSearchTerm(term) =>
                   /\ tableState' = [tableState EXCEPT !.searchTerm = Str(term),
                                                       !.currentPage = Num(1)]
                   /\ storage' = JsonStringify(tableState')
                   /\ ParsedProp(storage', "searchTerm") = Str(term)
                   /\ ParsedProp(storage', "currentPage") = Num(1)
        /\ \A value \in CategoryValues :
               setCategoryFilter(value) =>
                   /\ tableState' = [tableState EXCEPT !.categoryFilter = Name(value),
                                                       !.currentPage = Num(1)]
                   /\ storage' = JsonStringify(tableState')
                   /\ ParsedProp(storage', "categoryFilter") = Name(value)
                   /\ ParsedProp(storage', "currentPage") = Num(1) ]_vars

\* setSearchTerm has acted on a state whose filter and sort are not the defaults
C4_Witness ==
    /\ Mounted
    /\ savedBy = "setSearchTerm"
    /\ tableState.searchTerm = Str(<<"A">>)
    /\ tableState.categoryFilter = Name("f")
    /\ tableState.sortConfig = SortConfig(KEY_NAME, ASC)
    /\ storage = JsonStringify(tableState)

\* C5: every transition of a mounted product list that changes searchTerm
\* or categoryFilter ends with currentPage = 1 (stated for transitions that
\* start on a page of the list).
C5_FilterChangeResetsPage ==
    [][ ( /\ Mounted /\ Mounted'
          /\ tableState.currentPage.v >= 1
          /\ tableState.currentPage.v <= pageCount(products, tableState)
          /\ \/ tableState'.searchTerm # tableState.searchTerm
             \/ tableState'.categoryFilter # tableState.categoryFilter )
        => tableState'.currentPage = Num(1) ]_vars

\* C6: requestSort leaves currentPage, searchTerm and categoryFilter unchanged.
C6_SortKeepsPage ==
    [][ \A key \in SortKeys :
            requestSort(key) =>
                /\ tableState'.currentPage = tableState.currentPage
                /\ tableState'.searchTerm = tableState.searchTerm
                /\ tableState'.categoryFilter = tableState.categoryFilter ]_vars

\* requestSort has acted while the second page was shown
C6_Witness ==
    /\ Mounted
    /\ savedBy = "requestSort"
    /\ tableState.currentPage = Num(2)
    /\ pageCount(products, tableState) >= 2

\* C7: after resetFilters the ViewState is {"", "all", lastUpdated desc, 1}
\* and that state is the one in storage.
C7_ResetFilters ==
    savedBy = "resetFilters" =>
        /\ Mounted => tableState = DefaultState
        /\ lastSaved = DefaultState
        /\ storage = JsonStringify(DefaultState)
        /\ getInitialState(Empty, storage) = DefaultState

\* resetFilters has acted on a list of more than one page
C7_Witness ==
    /\ Mounted
    /\ savedBy = "resetFilters"
    /\ pageCount(products, tableState) >= 2

\* C8: after setSearchTerm(t), leaving the product list and opening it again
\* gives a controller whose searchTerm is t.
C8_SearchTermRoundTrip ==
    [][ ( /\ ~Mounted
          /\ savedBy = "setSearchTerm"
          /\ handleSetCurrentView("inventory") )
        => tableState'.searchTerm = lastSaved.searchTerm ]_vars

\* C9: once a forced search term has been applied and the user has then set
\* another term (setSearchTerm or resetFilters), opening the product list
\* again restores the user's term, not the forced one.
C9_ForcedTermOnlyOnce ==
    [][ ( /\ ~Mounted
          /\ Truthy(initialSearchTerm)
          /\ savedBy \in {"setSearchTerm", "resetFilters"}
          /\ lastSaved.searchTerm # initialSearchTerm
          /\ handleSetCurrentView("inventory") )
        => tableState'.searchTerm # initialSearchTerm ]_vars

\* C10: the ViewState the controller wrote to storage is the ViewState a new
\* controller starts from when there is no forced search term.
C10_RestoredVerbatim ==
    storage # NoItem => getInitialState(Empty, storage) = lastSaved

----------------------------------------------------------------------------
(* The store as the page finds it: any content under TABLE_STATE_KEY, and a *)
(* store that may be full                                                  *)

\* a stored object with the four properties of TableState, as JSON values
StoredObject(search, category, sort, page) ==
    JsonText([t |-> "object",
              v |-> << <<"searchTerm", search>>, <<"categoryFilter", category>>,
                       <<"sortConfig", sort>>, <<"currentPage", page>> >>])

JsonSort(key, direction) ==
    [t |-> "object",
     v |-> << <<"key", [t |-> "name", v |-> key]>>,
              <<"direction", [t |-> "name", v |-> direction]>> >>]

\* entries that are absent, empty, not JSON, or JSON that is no object
BrokenItems ==
    { NoItem, Text(""), Text("{oops"),
      JsonText([t |-> "null", v |-> 0]), JsonText([t |-> "number", v |-> 5]) }

\* a stored object of the right shape, and the same with one property of
\* another type JSON allows
GoodSearch == [t |-> "string", v |-> <<"b">>]
GoodCategory == [t |-> "name", v |-> "f"]
GoodPage == [t |-> "number", v |-> 2]

ObjectItems ==
    { StoredObject(GoodSearch, GoodCategory, JsonSort(KEY_NAME, ASC), GoodPage),
      StoredObject([t |-> "number", v |-> 5], GoodCategory, JsonSort(KEY_NAME, ASC), GoodPage),
      StoredObject(GoodSearch, GoodCategory, [t |-> "name", v |-> KEY_NAME], GoodPage),
      StoredObject(GoodSearch, GoodCategory, [t |-> "array", v |-> <<>>], GoodPage),
      StoredObject(GoodSearch, GoodCategory, JsonSort(KEY_NAME, ASC), [t |-> "number", v |-> -1]) }

StoredItems == BrokenItems \cup ObjectItems

\* other keys of the origin fill the store: setItem throws from now on
StorageFills ==
    /\ ~quotaExceeded
    /\ quotaExceeded' = TRUE
    /\ UNCHANGED <<products, currentView, initialSearchTerm, tableState, storage,
                   lastSaved, savedBy, renderError, records, listState, selectedIds, remote>>

\* the page is loaded with any of these entries in the store
InitStore ==
    /\ products = <<>>
    /\ currentView = "dashboard"
    /\ initialSearchTerm = Empty
    /\ tableState = Unmounted
    /\ storage \in StoredItems
    /\ lastSaved = Unmounted
    /\ savedBy = "none"
    /\ renderError = FALSE
    /\ quotaExceeded = FALSE
    /\ records = <<>>
    /\ listState = NoList
    /\ selectedIds = {}
    /\ InitRemote

NextStore ==
    \/ \E view \in Views : handleSetCurrentView(view)
    \/ \E text \in BarcodeTexts : handleBarcodeScanned(text)
    \/ loadAppData
    \/ \E term \in SearchTerms : setSearchTerm(term)
    \/ \E key \in SortKeys : requestSort(key)
    \/ NextPage
    \/ resetFilters
    \/ StorageFills

SpecStore == InitStore /\ [][NextStore]_vars

----------------------------------------------------------------------------
(* Properties of initialization and of the write to the store *)

\* C11: when the entry is missing or is not parseable JSON, opening the
\* product list raises no error and starts from the defaults: the forced
\* search term (empty when there is none), filter "all", lastUpdated
\* descending, page 1.
C11_BrokenEntryGivesDefaults ==
    [][ ( /\ ~Mounted
          /\ storage = NoItem \/ storage.t = "text"
          /\ \/ handleSetCurrentView("inventory")
             \/ \E text \in BarcodeTexts : handleBarcodeScanned(text) )
        => /\ ~renderError'
           /\ tableState' = TableState(initialSearchTerm', Name(ALL), DefaultSort, Num(1)) ]_vars

\* the product list, with products, was opened over an entry that is not JSON
\* (the store is full, so the entry is still there)
C11_Witness ==
    /\ Mounted
    /\ storage.t = "text"
    /\ products # <<>>
    /\ tableState = TableState(Empty, Name(ALL), DefaultSort, Num(1))

\* C12: when the entry is a JSON object with a property of the wrong type,
\* opening the product list (no forced term) raises no error and that
\* property has its default: searchTerm "" unless a string, sortConfig
\* lastUpdated descending unless an object, currentPage 1 unless a positive
\* number.
C12_WrongTypesGiveDefaults ==
    [][ ( /\ ~Mounted
          /\ storage \in ObjectItems
          /\ ~Truthy(initialSearchTerm)
          /\ handleSetCurrentView("inventory") )
        => /\ ~renderError'
           /\ ParsedProp(storage, "searchTerm").t # "string"
                  => tableState'.searchTerm = Empty
           /\ ParsedProp(storage, "sortConfig").t # "object"
                  => tableState'.sortConfig = DefaultSort
           /\ ~(ParsedProp(storage, "currentPage").t = "number"
                    /\ ParsedProp(storage, "currentPage").v >= 1)
                  => tableState'.currentPage = Num(1) ]_vars

\* C17: while setItem throws, every setter still changes tableState as it
\* does otherwise, no error leaves the hook (the tree stays mounted), and the
\* entry in the store is left as it was.
C17_WriteFailureSwallowed ==
    [][ quotaExceeded =>
          /\ \A term \in SearchTerms :
                 setSearchTerm(term) =>
                     /\ tableState' = [tableState EXCEPT !.searchTerm = Str(term),
                                                         !.currentPage = Num(1)]
                     /\ ~renderError' /\ storage' = storage
          /\ \A key \in SortKeys :
                 requestSort(key) =>
                     /\ tableState' = [tableState EXCEPT !.sortConfig =
                                           SortConfig(key, nextDirection(tableState, key))]
                     /\ ~renderError' /\ storage' = storage
          /\ NextPage =>
                 /\ tableState' = [tableState EXCEPT !.currentPage = Num(tableState.currentPage.v + 1)]
                 /\ ~renderError' /\ storage' = storage
          /\ resetFilters =>
                 /\ tableState' = DefaultState
                 /\ ~renderError' /\ storage' = storage ]_vars

\* setSearchTerm and then requestSort have acted while setItem throws: the
\* state in memory holds both updates, the store holds neither
C17_Witness ==
    /\ quotaExceeded
    /\ Mounted
    /\ savedBy = "requestSort"
    /\ tableState.searchTerm = Str(<<"A">>)
    /\ tableState.sortConfig = SortConfig(KEY_QUANTITY, ASC)
    /\ storage = NoItem

----------------------------------------------------------------------------
(* The controller over any collection: useTableControls(initialData, ...)   *)
(* with initialData drawn from the collections of catalogue products in    *)
(* any order                                                               *)

IdOrders ==
    UNION { {f \in [1..n -> ProductIds] : \A i, j \in 1..n : i # j => f[i] # f[j]} :
            n \in 0..MaxProducts }

Collections == { [i \in 1..Len(f) |-> Product(f[i])] : f \in IdOrders }

InitTable ==
    /\ products \in Collections
    /\ currentView = "inventory"
    /\ initialSearchTerm = Empty
    /\ tableState = getInitialState(Empty, NoItem)
    /\ storage = JsonStringify(tableState)
    /\ lastSaved = tableState
    /\ savedBy = "handleSetCurrentView"
    /\ renderError = FALSE
    /\ quotaExceeded = FALSE
    /\ records = <<>>
    /\ listState = NoList
    /\ selectedIds = {}
    /\ InitRemote

NextTable ==
    \/ \E term \in SearchTerms : setSearchTerm(term)
    \/ \E category \in CategoryValues : setCategoryFilter(category)
    \/ \E key \in SortKeys : requestSort(key)
    \/ \E page \in PageInputs : setCurrentPage(page)
    \/ PreviousPage
    \/ NextPage
    \/ resetFilters

SpecTable == InitTable /\ [][NextTable]_vars

----------------------------------------------------------------------------
(* Properties of the page the controller computes *)

\* C13: totalPages is ceil(N / pageSize) for N the size of the filtered set
\* (0 when N = 0), the page has at most pageSize items, and an empty
\* collection gives an empty page and totalPages = 0 in every ViewState.
C13_PaginationBounds ==
    Mounted =>
        LET N == Len(filteredData(products, tableState))
            totalPages == pageCount(products, tableState)
        IN  /\ totalPages * ItemsPerPage >= N
            /\ (totalPages - 1) * ItemsPerPage < N \/ (N = 0 /\ totalPages = 0)
            /\ Len(paginatedData(products, tableState)) <= ItemsPerPage
            /\ products = <<>> =>
                   (paginatedData(products, tableState) = <<>> /\ totalPages = 0)

\* the last page of a list is shown and is not full
C13_Witness ==
    /\ Mounted
    /\ pageCount(products, tableState) >= 2
    /\ tableState.currentPage = Num(pageCount(products, tableState))
    /\ paginatedData(products, tableState) # <<>>
    /\ Len(paginatedData(products, tableState)) < ItemsPerPage

\* C14: the filtered set holds exactly the records of the collection, in
\* their order, whose name or sku contains searchTerm without regard to case
\* (any record when searchTerm is empty) and whose category is categoryFilter
\* (any record when it is "all"); it is never larger than the collection and
\* "all" excludes nothing the search term keeps.
C14_FilterExact ==
    Mounted =>
        LET term == toLowerCase(tableState.searchTerm.v)
            Found(text) == \E i \in 1..(Len(text) + 1) : \E j \in (i - 1)..Len(text) :
                               SubSeq(toLowerCase(text), i, j) = term
            Kept(p) == /\ term = <<>> \/ Found(p.name) \/ Found(p.sku)
                       /\ tableState.categoryFilter = Name(ALL)
                             \/ tableState.categoryFilter = Name(p.category)
            SearchKept(p) == term = <<>> \/ Found(p.name) \/ Found(p.sku)
            filtered == filteredData(products, tableState)
        IN  /\ filtered = SelectSeq(products, Kept)
            /\ Len(filtered) <= Len(products)
            /\ tableState.categoryFilter = Name(ALL) =>
                   filtered = SelectSeq(products, SearchKept)

\* a search term in another case than the names and a category both exclude
\* records of a collection of MaxProducts
C14_Witness ==
    /\ Mounted
    /\ tableState.searchTerm = Str(<<"A">>)
    /\ tableState.categoryFilter = Name("f")
    /\ Len(products) = MaxProducts
    /\ Len(filteredData(products, tableState)) \in 1..(Len(products) - 1)

\* C15: the sorted rows are the filtered rows ordered by the sort key in the
\* sort direction, and rows whose keys are equal keep the order they have in
\* the collection; with page size 2 and quantity ascending, the collection
\* (3), (10), (3) gives page 1 = first and third record, page 2 = the second.
C15_StableSort ==
    Mounted =>
        LET sorted == sortedData(products, tableState)
            key == tableState.sortConfig.v.key
            asc == tableState.sortConfig.v.direction = Name(ASC)
            Lower(x) == IF x.t = "string" THEN toLowerCase(x.v) ELSE x.v
            SameKey(a, b) == Lower(FieldOf(a, key)) = Lower(FieldOf(b, key))
            Position(p) == CHOOSE i \in 1..Len(products) : products[i] = p
            abc == <<Product(1), Product(2), Product(3)>>
        IN  /\ \A i, j \in 1..Len(sorted) :
                   (i < j /\ SameKey(sorted[i], sorted[j]))
                       => Position(sorted[i]) < Position(sorted[j])
            /\ \A i, j \in 1..Len(sorted) :
                   (i < j /\ key = Name(KEY_QUANTITY) /\ asc)
                       => sorted[i].quantity <= sorted[j].quantity
            /\ \A i, j \in 1..Len(sorted) :
                   (i < j /\ key = Name(KEY_QUANTITY) /\ ~asc)
                       => sorted[i].quantity >= sorted[j].quantity
            /\ ( /\ products = abc
                 /\ filteredData(products, tableState) = abc
                 /\ tableState.sortConfig = SortConfig(KEY_QUANTITY, ASC)
                 /\ ItemsPerPage = 2 )
               => /\ tableState.currentPage = Num(1)
                      => paginatedData(products, tableState) = <<Product(1), Product(3)>>
                  /\ tableState.currentPage = Num(2)
                      => paginatedData(products, tableState) = <<Product(2)>>

\* quantity ascending over a collection whose first and third record are
\* tied and do not come in the order of their ids
C15_Witness ==
    /\ Mounted
    /\ tableState.sortConfig = SortConfig(KEY_QUANTITY, ASC)
    /\ Len(sortedData(products, tableState)) >= 3
    /\ products[1].quantity = products[3].quantity
    /\ products[1].id > products[3].id

----------------------------------------------------------------------------
(* The other list screens: VendorList, PurchaseOrderList, RequestList,     *)
(* StockAdjustmentList and AuditLog.  Their tableState holds plain values: *)
(* texts are sequences of characters, filters and sort keys are atoms.     *)


\* Vendor (types.ts); the contact persons are written "B", "a", "B", ...
Vendor(i) ==
    [ name |-> Product(i).name, id |-> i, category |-> <<CategoryNames[((i - 1) % 2) + 1]>>,
      lastUpdated |-> Timestamp(i), contactPerson |-> IF i % 2 = 1 THEN <<"B">> ELSE <<"a">> ]

\* PurchaseOrder (types.ts)
PurchaseOrder(i) ==
    [ id |-> i, vendorId |-> IF i % 2 = 1 THEN "v1" ELSE "v2", productName |-> Product(i).name,
      requestDate |-> Timestamp(i) ]

\* Request (types.ts)
Request(i) ==
    [ id |-> i, quantity |-> IF i % 2 = 1 THEN i ELSE 4, requestDate |-> Timestamp(i),
      productId |-> 2 - (i % 2),
      status |-> IF i % 2 = 1 THEN "Approved" ELSE "Pending Approval",
      priority |-> IF i % 3 = 1 THEN "High" ELSE IF i % 3 = 2 THEN "Low" ELSE "Medium" ]

\* StockAdjustment (types.ts)
StockAdjustment(i) ==
    [ date |-> Timestamp(i), id |-> i,
      productName |-> Product(i).name, reason |-> IF i % 2 = 1 THEN "Stocktake" ELSE "Return" ]

\* AuditLog (types.ts)
AuditLog(i) ==
    [ id |-> i, user |-> <<FirstLetters[((i - 1) % 2) + 1]>>, action |-> Product(i).name,
      timestamp |-> Timestamp(i) ]

DateScreens == {"purchase-orders", "requests", "adjustments", "audit-log"}
ListScreens == DateScreens \cup {"vendors"}

\* the record of id i of the collection App hands to a list screen
ListRecord(view, i) ==
    CASE view = "vendors" -> Vendor(i)
      [] view = "purchase-orders" -> PurchaseOrder(i)
      [] view = "requests" -> Request(i)
      [] view = "adjustments" -> StockAdjustment(i)
      [] OTHER -> AuditLog(i)

\* getInitialState() of each list screen over an empty store
ListDefaults(view) ==
    CASE view = "vendors" ->
            [searchTerm |-> <<>>, sortConfig |-> [key |-> "name", direction |-> ASC]]
      [] view = "purchase-orders" ->
            [sortConfig |-> [key |-> "requestDate", direction |-> DESC],
             startDate |-> <<>>, endDate |-> <<>>, vendorFilter |-> ALL,
             productSearch |-> <<>>]
      [] view = "requests" ->
            [sortConfig |-> [key |-> "requestDate", direction |-> DESC],
             startDate |-> <<>>, endDate |-> <<>>, statusFilter |-> ALL,
             activeTab |-> "history"]
      [] view = "adjustments" ->
            [sortConfig |-> [key |-> "date", direction |-> DESC],
             startDate |-> <<>>, endDate |-> <<>>, reasonFilter |-> ALL]
      [] OTHER ->
            [sortConfig |-> [key |-> "timestamp", direction |-> DESC], currentPage |-> 1,
             startDate |-> <<>>, endDate |-> <<>>, userFilter |-> <<>>,
             actionFilter |-> <<>>]

\* the date filter comparing against the end date as parsed (its midnight)
InDateRange_midnightEnd(isoString, filterStartDate, filterEndDate) ==
    LET recordDate == DateOfIso(isoString)
    IN  /\ filterStartDate # Null => ~Before(recordDate, StartOfDay(filterStartDate.v))
        /\ filterEndDate # Null => ~Before(filterEndDate.v, recordDate)

\* the date part of every filter callback: the record's date against the
\* two parsed bounds
InDateRange(isoString, filterStartDate, filterEndDate) ==
    LET recordDate == DateOfIso(isoString)
    IN  /\ filterStartDate # Null => ~Before(recordDate, StartOfDay(filterStartDate.v))
        /\ filterEndDate # Null => ~Before(EndOfDay(filterEndDate.v), recordDate)

\* the sign a comparator returns for two dates: (aValue - bValue) * dir
CompareDates(aIso, bIso, dir) ==
    LET aValue == DateOfIso(aIso)
        bValue == DateOfIso(bIso)
    IN  IF Before(aValue, bValue) THEN 0 - dir
        ELSE IF Before(bValue, aValue) THEN dir
        ELSE 0

\* the sign a comparator returns for two strings compared with < and >
CompareStrings(aValue, bValue, dir) ==
    IF StrLess(aValue, bValue) THEN 0 - dir
    ELSE IF StrLess(bValue, aValue) THEN dir
    ELSE 0

Dir(sortConfig) == IF sortConfig.direction = ASC THEN 1 ELSE -1

----------------------------------------------------------------------------
(* The comparators of the screens *)

\* the comparator of sortedVendors: a[key] and b[key] compared with < and >
compareVendors(a, b, sortConfig) ==
    CompareStrings(a[sortConfig.key], b[sortConfig.key], Dir(sortConfig))

\* the comparator of sortedPOs
comparePOs(a, b, sortConfig) ==
    CASE sortConfig.key = "productName" ->
            CompareStrings(a.productName, b.productName, Dir(sortConfig))
      [] sortConfig.key = "requestDate" ->
            CompareDates(a.requestDate, b.requestDate, Dir(sortConfig))
      [] OTHER -> 0

priorityOrder(priority) ==
    CASE priority = "High" -> 3 [] priority = "Medium" -> 2 [] OTHER -> 1

\* the comparator of sortedRequests
compareRequests(a, b, sortConfig) ==
    IF sortConfig.key = "priority"
    THEN (priorityOrder(a.priority) - priorityOrder(b.priority)) * Dir(sortConfig)
    ELSE CompareDates(a.requestDate, b.requestDate, Dir(sortConfig))

\* the comparator of sortedAdjustments
compareAdjustments(a, b, sortConfig) ==
    IF sortConfig.key = "date"
    THEN CompareDates(a.date, b.date, Dir(sortConfig))
    ELSE CompareStrings(a[sortConfig.key], b[sortConfig.key], Dir(sortConfig))

\* the comparator of sortedLogs
compareLogs(a, b, sortConfig) ==
    IF sortConfig.key = "timestamp"
    THEN CompareDates(a.timestamp, b.timestamp, Dir(sortConfig))
    ELSE CompareStrings(a[sortConfig.key], b[sortConfig.key], Dir(sortConfig))

\* Array.prototype.sort, a stable sort; the comparator is given as the
\* function order[a, b] over the elements of the array
StableSortBy(items, order) ==
    LET n == Len(items)
        before == [i \in 1..n |->
                      {j \in 1..n : LET c == order[items[j], items[i]]
                                    IN  c < 0 \/ (c = 0 /\ j < i)}]
    IN  [k \in 1..n |-> items[CHOOSE i \in 1..n : Cardinality(before[i]) = k - 1]]

----------------------------------------------------------------------------
(* Arrays.  A render works on three arrays: the prop ("input"), the result *)
(* of .filter ("filtered") and the copy made by [...] ("sortable").        *)

Arrays(input) == [filtered |-> <<>>, input |-> input, sortable |-> <<>>]

\* array.filter(callback): a new array, holding the elements kept
ArrayFilter(arrays, kept) == [arrays EXCEPT !.filtered = kept]

\* [...array]: a new array
ArraySpread(arrays, ref) == [arrays EXCEPT !.sortable = arrays[ref]]

\* the elements of an array
Elements(array) == {array[i] : i \in 1..Len(array)}

\* what a render leaves: the prop, and the rows taken from one of the arrays
Shown(arrays, ref) == [input |-> arrays.input, rows |-> arrays[ref]]

\* array.slice(startIndex, startIndex + itemsPerPage) on the page asked
\* for, clamped: Math.max(1, Math.min(currentPage, pageCount || 1))
SlicePage(array, currentPage, itemsPerPage, pages) ==
    SubSeq(array, (Max(1, Min(currentPage, IF pages # 0 THEN pages ELSE 1)) - 1) * itemsPerPage + 1,
           Min(Max(1, Min(currentPage, IF pages # 0 THEN pages ELSE 1)) * itemsPerPage,
               Len(array)))

\* the rows of a render cut to the page shown
Paginated(shown, currentPage, itemsPerPage) ==
    [shown EXCEPT !.rows = SlicePage(shown.rows, currentPage, itemsPerPage,
                                     (Len(shown.rows) + itemsPerPage - 1) \div itemsPerPage)]

\* array.sort(comparator): sorts the array it is called on
ArraySort(arrays, ref, order) == [arrays EXCEPT ![ref] = StableSortBy(arrays[ref], order)]

----------------------------------------------------------------------------
(* The renders of the screens *)

\* filteredData, sortedData and paginatedData of useTableControls
RenderProductList(initialData, s) ==
    LET a1 == ArrayFilter(Arrays(initialData), SelectSeq(initialData,
                          LAMBDA p : matchesSearch(p, s) /\ matchesCategory(p, s)))
        a2 == ArraySpread(a1, "filtered")
        a3 == IF s.sortConfig.t # "null"
              THEN ArraySort(a2, "sortable",
                        [a, b \in Elements(initialData) |-> compare(a, b, s.sortConfig)])
              ELSE a2
    IN  Paginated(Shown(a3, "sortable"), s.currentPage.v, ItemsPerPage)

\* the predicate of vendors.filter(...)
vendorMatches(vendor, searchTerm) ==
    \/ includes(toLowerCase(vendor.name), toLowerCase(searchTerm))
    \/ includes(toLowerCase(vendor.category), toLowerCase(searchTerm))
    \/ includes(toLowerCase(vendor.contactPerson), toLowerCase(searchTerm))

\* VendorList sorting filteredVendors itself
RenderVendorList_noCopy(vendors, s) ==
    LET filteredVendors == IF s.searchTerm = <<>> THEN "input" ELSE "filtered"
        a1 == IF s.searchTerm = <<>> THEN Arrays(vendors)
              ELSE ArrayFilter(Arrays(vendors), SelectSeq(vendors,
                               LAMBDA vendor : vendorMatches(vendor, s.searchTerm)))
        a3 == ArraySort(a1, filteredVendors,
                        [a, b \in Elements(vendors) |-> compareVendors(a, b, s.sortConfig)])
    IN  Shown(a3, filteredVendors)

\* filteredVendors (the prop itself when there is no search term) and
\* sortedVendors of VendorList
RenderVendorList(vendors, s) ==
    LET filteredVendors == IF s.searchTerm = <<>> THEN "input" ELSE "filtered"
        a1 == IF s.searchTerm = <<>> THEN Arrays(vendors)
              ELSE ArrayFilter(Arrays(vendors), SelectSeq(vendors,
                               LAMBDA vendor : vendorMatches(vendor, s.searchTerm)))
        a2 == ArraySpread(a1, filteredVendors)
        a3 == ArraySort(a2, "sortable",
                        [a, b \in Elements(vendors) |-> compareVendors(a, b, s.sortConfig)])
    IN  Shown(a3, "sortable")

\* sortedPOs of PurchaseOrderList
RenderPurchaseOrderList(purchaseOrders, s) ==
    LET filterStartDate == parseDDMMYYYY(s.startDate)
        filterEndDate == parseDDMMYYYY(s.endDate)
        a1 == ArrayFilter(Arrays(purchaseOrders), SelectSeq(purchaseOrders,
                  LAMBDA po : /\ InDateRange(po.requestDate, filterStartDate, filterEndDate)
                              /\ ~(s.vendorFilter # ALL /\ po.vendorId # s.vendorFilter)
                              /\ ~(s.productSearch # <<>>
                                     /\ ~includes(toLowerCase(po.productName),
                                                  toLowerCase(s.productSearch)))))
        a2 == ArraySort(a1, "filtered",
                        [a, b \in Elements(purchaseOrders) |-> comparePOs(a, b, s.sortConfig)])
    IN  Shown(a2, "filtered")

\* sortedRequests of RequestList
RenderRequestList(requests, s) ==
    LET filterStartDate == parseDDMMYYYY(s.startDate)
        filterEndDate == parseDDMMYYYY(s.endDate)
        a1 == ArrayFilter(Arrays(requests), SelectSeq(requests,
                  LAMBDA request : /\ ~(s.statusFilter # ALL /\ request.status # s.statusFilter)
                                   /\ InDateRange(request.requestDate, filterStartDate, filterEndDate)))
        a2 == ArraySort(a1, "filtered",
                        [a, b \in Elements(requests) |-> compareRequests(a, b, s.sortConfig)])
    IN  Shown(a2, "filtered")

\* sortedAdjustments of StockAdjustmentList
RenderStockAdjustmentList(adjustments, s) ==
    LET filterStartDate == parseDDMMYYYY(s.startDate)
        filterEndDate == parseDDMMYYYY(s.endDate)
        a1 == ArrayFilter(Arrays(adjustments), SelectSeq(adjustments,
                  LAMBDA item : /\ InDateRange(item.date, filterStartDate, filterEndDate)
                                /\ ~(s.reasonFilter # ALL /\ item.reason # s.reasonFilter)))
        a2 == ArraySort(a1, "filtered",
                        [a, b \in Elements(adjustments) |-> compareAdjustments(a, b, s.sortConfig)])
    IN  Shown(a2, "filtered")

\* itemsPerPage of AuditLog
LogsPerPage == 15

\* sortedLogs of AuditLog
RenderAuditLog(logs, s) ==
    LET filterStartDate == parseDDMMYYYY(s.startDate)
        filterEndDate == parseDDMMYYYY(s.endDate)
        a1 == ArrayFilter(Arrays(logs), SelectSeq(logs,
                  LAMBDA log : /\ InDateRange(log.timestamp, filterStartDate, filterEndDate)
                               /\ ~(s.userFilter # <<>>
                                      /\ toLowerCase(log.user) # toLowerCase(s.userFilter))
                               /\ ~(s.actionFilter # <<>>
                                      /\ ~includes(toLowerCase(log.action),
                                                   toLowerCase(s.actionFilter)))))
        a2 == ArraySort(a1, "filtered",
                        [a, b \in Elements(logs) |-> compareLogs(a, b, s.sortConfig)])
    IN  Paginated(Shown(a2, "filtered"), s.currentPage, LogsPerPage)

\* the render of the list screen that view names
RenderList(view, input, s) ==
    CASE view = "vendors" -> RenderVendorList(input, s)
      [] view = "purchase-orders" -> RenderPurchaseOrderList(input, s)
      [] view = "requests" -> RenderRequestList(input, s)
      [] view = "adjustments" -> RenderStockAdjustmentList(input, s)
      [] OTHER -> RenderAuditLog(input, s)

----------------------------------------------------------------------------
(* The list screens as a state machine: App hands its array to the screen, *)
(* every state update is followed by a render over that very array         *)

\* texts typed into a date input: nothing, 31/02/2024, a text that is not
\* dd/mm/yyyy, and a date between those of the records
DateTexts ==
    { <<>>,
      <<"3", "1", "/", "0", "2", "/", "2", "0", "2", "4">>,
      <<"1", "/", "3", "/", "2", "0", "2", "4">>,
      <<"0", "3", "/", "0", "3", "/", "2", "0", "2", "4">> }

\* the column headers of each screen
ListSortKeys(view) ==
    CASE view = "vendors" -> {"name", "contactPerson", "lastUpdated"}
      [] view = "purchase-orders" -> {"productName", "requestDate"}
      [] view = "requests" -> {"priority", "requestDate"}
      [] view = "adjustments" -> {"productName", "date"}
      [] OTHER -> {"action", "timestamp"}

\* the options of the select of each screen
ListFilterValues(view) ==
    CASE view = "purchase-orders" -> {ALL, "v1"}
      [] view = "requests" -> {ALL, "Approved"}
      [] view = "adjustments" -> {ALL, "Return"}
      [] OTHER -> {<<>>, <<"A">>}

RecordOrders ==
    UNION { {f \in [1..n -> 1..MaxRecords] : \A i, j \in 1..n : i # j => f[i] # f[j]} :
            n \in {0, MaxRecords} }

\* the arrays App can hold for a screen: no record, or the records in any order
RecordCollections(view) == { [i \in 1..Len(f) |-> ListRecord(view, f[i])] : f \in RecordOrders }

ListUnchanged ==
    UNCHANGED <<products, currentView, initialSearchTerm, tableState, storage, lastSaved,
                savedBy, renderError, quotaExceeded, selectedIds, remote>>

\* setTableState(next) of a list screen and the render that follows
ListCommit(next) ==
    /\ listState' = next
    /\ records' = RenderList(currentView, records, next).input
    /\ ListUnchanged

\* the start-date input (handleFilterChange on the audit log)
setStartDate(text) ==
    /\ currentView \in DateScreens
    /\ ListCommit(IF currentView = "audit-log"
                  THEN [listState EXCEPT !.startDate = text, !.currentPage = 1]
                  ELSE [listState EXCEPT !.startDate = text])

\* the end-date input (handleFilterChange on the audit log)
setEndDate(text) ==
    /\ currentView \in DateScreens
    /\ ListCommit(IF currentView = "audit-log"
                  THEN [listState EXCEPT !.endDate = text, !.currentPage = 1]
                  ELSE [listState EXCEPT !.endDate = text])

\* the select of each screen: vendor, status, reason, user
setListFilter(value) ==
    /\ currentView \in DateScreens
    /\ ListCommit(CASE currentView = "purchase-orders" -> [listState EXCEPT !.vendorFilter = value]
                    [] currentView = "requests" -> [listState EXCEPT !.statusFilter = value]
                    [] currentView = "adjustments" -> [listState EXCEPT !.reasonFilter = value]
                    [] OTHER -> [listState EXCEPT !.userFilter = value, !.currentPage = 1])

\* the search input of VendorList
setVendorSearch(term) ==
    /\ currentView = "vendors"
    /\ ListCommit([listState EXCEPT !.searchTerm = term])

\* requestSort(key) of a list screen
listRequestSort(key) ==
    /\ currentView \in ListScreens
    /\ LET direction == IF listState.sortConfig.key = key /\ listState.sortConfig.direction = ASC
                        THEN DESC ELSE ASC
       IN  ListCommit([listState EXCEPT !.sortConfig = [key |-> key, direction |-> direction]])

\* the filter bar with the Reset button: RequestList shows it on the
\* history tab only
ResetShown ==
    /\ currentView \in DateScreens
    /\ currentView = "requests" => listState.activeTab = "history"

\* a reset that puts every screen back into its default state
handleReset_defaults ==
    /\ ResetShown
    /\ ListCommit(ListDefaults(currentView))

\* handleReset: PurchaseOrderList replaces the whole state, the other
\* screens spread the current state under the cleared filters
handleReset ==
    /\ ResetShown
    /\ ListCommit(CASE currentView = "purchase-orders" -> ListDefaults("purchase-orders")
                    [] currentView = "requests" ->
                         [listState EXCEPT !.startDate = <<>>, !.endDate = <<>>,
                                           !.statusFilter = ALL]
                    [] currentView = "adjustments" ->
                         [listState EXCEPT !.startDate = <<>>, !.endDate = <<>>,
                                           !.reasonFilter = ALL]
                    [] OTHER ->
                         [listState EXCEPT !.startDate = <<>>, !.endDate = <<>>,
                                           !.userFilter = <<>>, !.actionFilter = <<>>,
                                           !.currentPage = 1])

\* one screen is shown, over any array: a list screen in its default state,
\* or the product list
InitLists ==
    /\ currentView \in ListScreens \cup {"inventory"}
    /\ initialSearchTerm = Empty
    /\ renderError = FALSE
    /\ quotaExceeded = FALSE
    /\ savedBy = "handleSetCurrentView"
    /\ IF currentView = "inventory"
       THEN /\ products \in Collections
            /\ tableState = getInitialState(Empty, NoItem)
            /\ records = <<>>
            /\ listState = NoList
       ELSE /\ products = <<>>
            /\ tableState = Unmounted
            /\ records \in RecordCollections(currentView)
            /\ listState = ListDefaults(currentView)
    /\ storage = IF currentView = "inventory" THEN JsonStringify(tableState) ELSE NoItem
    /\ lastSaved = tableState
    /\ selectedIds = {}
    /\ InitRemote

NextLists ==
    \/ \E text \in DateTexts : setStartDate(text)
    \/ \E text \in DateTexts : setEndDate(text)
    \/ \E value \in ListFilterValues(currentView) : setListFilter(value)
    \/ \E term \in SearchTerms : setVendorSearch(term)
    \/ \E key \in ListSortKeys(currentView) : listRequestSort(key)
    \/ handleReset
    \/ \E term \in SearchTerms : setSearchTerm(term)
    \/ \E key \in SortKeys : requestSort(key)

SpecLists == InitLists /\ [][NextLists]_vars

----------------------------------------------------------------------------
(* Properties of the date filters *)

\* the days of a month of the calendar
CalendarDays(month, year) ==
    IF month = 2
    THEN (IF year % 4 = 0 /\ (year % 100 # 0 \/ year % 400 = 0) THEN 29 ELSE 28)
    ELSE IF month \in {4, 6, 9, 11} THEN 30 ELSE 31

\* the text is not dd/mm/yyyy, or it is and names a day the calendar lacks
NamesNoDate(text) ==
    \/ ~MatchesDDMMYYYY(text)
    \/ LET day == parseInt(SubSeq(text, 1, 2))
           month == parseInt(SubSeq(text, 4, 5))
           year == parseInt(SubSeq(text, 7, 10))
       IN  month \notin 1..12 \/ day \notin 1..CalendarDays(month, year)

\* the rows the screen shows for a state
RowsShown(s) == RenderList(currentView, records, s).rows

\* C16: on the purchase-order, request, adjustment and audit-log lists, a
\* start date (or an end date) that is not dd/mm/yyyy or names an impossible
\* day such as 31/02/2024 gives exactly the rows that leaving that bound
\* empty gives.
C16_DateRangeLeniency ==
    currentView \in DateScreens =>
        /\ NamesNoDate(listState.startDate) =>
               RowsShown(listState) = RowsShown([listState EXCEPT !.startDate = <<>>])
        /\ NamesNoDate(listState.endDate) =>
               RowsShown(listState) = RowsShown([listState EXCEPT !.endDate = <<>>])

\* the purchase orders are filtered from 31/02/2024 to 03/03/2024: the start
\* text is ignored and the end date still drops the orders after it
C16_Witness ==
    /\ currentView = "purchase-orders"
    /\ Len(records) = MaxRecords
    /\ listState.startDate = <<"3", "1", "/", "0", "2", "/", "2", "0", "2", "4">>
    /\ listState.endDate = <<"0", "3", "/", "0", "3", "/", "2", "0", "2", "4">>
    /\ RowsShown(listState) # <<>>
    /\ Len(RowsShown(listState)) < Len(records)
    /\ RowsShown(listState) = RowsShown([listState EXCEPT !.startDate = <<>>])

----------------------------------------------------------------------------
(* Properties of the arrays a render works on *)

\* C18: computing the displayed list never changes the input array: after
\* any state update and its render on the vendor and purchase-order screens
\* the array App holds has the same elements in the same order, and so has
\* the products array after the filter, sort and slice of the product list.
C18_InputNotMutated ==
    [][ /\ currentView \in {"vendors", "purchase-orders"} => records' = records
        /\ currentView = "inventory" =>
               /\ products' = products
               /\ ~renderError' =>
                      /\ RenderProductList(products, tableState').input = products
                      /\ RenderProductList(products, tableState').rows
                             = paginatedData(products, tableState') ]_vars

\* the vendors come in the order of their ids and names, no search term is
\* set, and requestSort('name') has turned the table to descending: the rows
\* shown are in another order than the array
C18_Witness ==
    /\ currentView = "vendors"
    /\ Len(records) = MaxRecords
    /\ \A i \in 1..Len(records) : records[i].id = i
    /\ listState.searchTerm = <<>>
    /\ listState.sortConfig = [key |-> "name", direction |-> DESC]
    /\ RowsShown(listState) # records
    /\ RowsShown(listState)[1] = records[Len(records)]

----------------------------------------------------------------------------
(* The product list under the barcode scanner: a scan forces the search    *)
(* term of the mounted list, and the code scanned need not be in stock     *)

\* the texts the scanner decodes: one that every product matches, one that
\* no product matches
ScannedTexts == {<<"A">>, <<"z">>}

NextScan ==
    \/ \E text \in ScannedTexts : handleBarcodeScanned(text)
    \/ \E term \in SearchTerms : setSearchTerm(term)
    \/ \E id \in ProductIds : onProductDelete(id)
    \/ PreviousPage
    \/ NextPage

SpecScan == InitTable /\ [][NextScan]_vars

\* C19: when a change of the collection or of the filters leaves fewer pages
\* than the page selected before it (currentPage > totalPages, totalPages = 0
\* included), the controller ends on currentPage = 1; the effects of a
\* change all run within its step.
C19_ShrinkResetsPage ==
    [][ ( /\ Mounted /\ Mounted'
          /\ tableState.currentPage.v >= 1
          /\ tableState.currentPage.v <= pageCount(products, tableState)
          /\ \/ products' # products
             \/ tableState'.searchTerm # tableState.searchTerm
             \/ tableState'.categoryFilter # tableState.categoryFilter
          /\ tableState.currentPage.v > pageCount(products', tableState') )
        => tableState'.currentPage = Num(1) ]_vars

----------------------------------------------------------------------------
(* Properties of the order of dates *)

\* the dates, in the order of their rows, follow their instants in the
\* direction given
OrderedByInstant(dates, direction) ==
    \A i, j \in 1..Len(dates) :
        i < j => IF direction = ASC
                 THEN ~Before(DateOfIso(dates[j]), DateOfIso(dates[i]))
                 ELSE ~Before(DateOfIso(dates[i]), DateOfIso(dates[j]))

\* C20: a table sorted by a date field (product lastUpdated, vendor
\* lastUpdated, purchase-order requestDate) shows its rows in the order of
\* the instants of those dates, whatever the order of the ISO-8601 strings.
C20_DatesSortedByInstant ==
    /\ (Mounted /\ Prop(tableState.sortConfig, "key") = Name(KEY_LASTUPDATED)) =>
           LET rows == sortedData(products, tableState)
           IN  OrderedByInstant([i \in 1..Len(rows) |-> rows[i].lastUpdated],
                                Prop(tableState.sortConfig, "direction").v)
    /\ (currentView = "vendors" /\ listState.sortConfig.key = "lastUpdated") =>
           LET rows == RowsShown(listState)
           IN  OrderedByInstant([i \in 1..Len(rows) |-> rows[i].lastUpdated],
                                listState.sortConfig.direction)
    /\ (currentView = "purchase-orders" /\ listState.sortConfig.key = "requestDate") =>
           LET rows == RowsShown(listState)
           IN  OrderedByInstant([i \in 1..Len(rows) |-> rows[i].requestDate],
                                listState.sortConfig.direction)

----------------------------------------------------------------------------
(* Properties of the order of strings *)

\* the texts, in the order of their rows, follow their lower-cased forms in
\* the direction given
OrderedIgnoringCase(texts, direction) ==
    \A i, j \in 1..Len(texts) :
        i < j => IF direction = ASC
                 THEN ~StrLess(toLowerCase(texts[j]), toLowerCase(texts[i]))
                 ELSE ~StrLess(toLowerCase(texts[i]), toLowerCase(texts[j]))

\* C21: a table sorted by a string field shows its rows in the order of the
\* lower-cased values of that field, on the product list (name) and on the
\* vendor list (name, contactPerson).
C21_StringSortIgnoresCase ==
    /\ (Mounted /\ Prop(tableState.sortConfig, "key") = Name(KEY_NAME)) =>
           LET rows == sortedData(products, tableState)
           IN  OrderedIgnoringCase([i \in 1..Len(rows) |-> rows[i].name],
                                   Prop(tableState.sortConfig, "direction").v)
    /\ (currentView = "vendors" /\ listState.sortConfig.key \in {"name", "contactPerson"}) =>
           LET rows == RowsShown(listState)
           IN  OrderedIgnoringCase([i \in 1..Len(rows) |-> rows[i][listState.sortConfig.key]],
                                   listState.sortConfig.direction)

----------------------------------------------------------------------------
(* The date screens under date ranges whose days hold records *)

\* texts typed into a date input: nothing, and the three days from the
\* first local day of the records to the last
RangeTexts ==
    { <<>>,
      <<"0", "2", "/", "0", "3", "/", "2", "0", "2", "4">>,
      <<"0", "3", "/", "0", "3", "/", "2", "0", "2", "4">>,
      <<"0", "4", "/", "0", "3", "/", "2", "0", "2", "4">> }

InitDates == InitLists /\ currentView \in DateScreens

NextDates ==
    \/ \E text \in RangeTexts : setStartDate(text)
    \/ \E text \in RangeTexts : setEndDate(text)

SpecDates == InitDates /\ [][NextDates]_vars

\* the timestamp of a record of the screen
RecordDateOf(view, record) ==
    CASE view \in {"purchase-orders", "requests"} -> record.requestDate
      [] view = "adjustments" -> record.date
      [] OTHER -> record.timestamp

\* the day number a text dd/mm/yyyy names
DayOfText(text) ==
    DayNumber(parseInt(SubSeq(text, 7, 10)), parseInt(SubSeq(text, 4, 5)),
              parseInt(SubSeq(text, 1, 2)))

\* the local day of the record lies in the range of days the two texts
\* give, a bound that names no date being no bound
OnDaysBetween(record, startDate, endDate) ==
    /\ ~NamesNoDate(startDate) =>
           DayOfText(startDate) <= LocalDay(DateOfIso(RecordDateOf(currentView, record)))
    /\ ~NamesNoDate(endDate) =>
           LocalDay(DateOfIso(RecordDateOf(currentView, record))) <= DayOfText(endDate)

\* C22: the date range is inclusive at day granularity: the rows shown are
\* exactly the records stamped from 00:00:00.000 of the start day to
\* 23:59:59.999 of the end day, that is, the records whose day lies between
\* the two days, both included.
C22_DateRangeInclusive ==
    currentView \in DateScreens =>
        {RowsShown(listState)[i].id : i \in 1..Len(RowsShown(listState))}
            = {records[i].id : i \in {k \in 1..Len(records) :
                   OnDaysBetween(records[k], listState.startDate, listState.endDate)}}

\* the adjustments are filtered from 02/03/2024 to 02/03/2024: the records
\* stamped in the course of that day are shown, the later ones are not
C22_Witness ==
    /\ currentView = "adjustments"
    /\ Len(records) = MaxRecords
    /\ listState.startDate = <<"0", "2", "/", "0", "3", "/", "2", "0", "2", "4">>
    /\ listState.endDate = listState.startDate
    /\ {RowsShown(listState)[i].id : i \in 1..Len(RowsShown(listState))} = {2, 3}

----------------------------------------------------------------------------
(* Clicks on Previous and Next that are queued before the next render *)

MaxClicks == 3

PageButtons == {"previous", "next"}

\* the updater a button hands to setCurrentPage; pageCount is the value of
\* the render the button belongs to
PageUpdater(button, prev, renderedPageCount) ==
    IF button = "next" THEN Min(prev + 1, renderedPageCount) ELSE Max(prev - 1, 1)

\* a button computing the page from the currentPage of its render
SetPageBy_renderedPage(current, rendered, button, renderedPageCount) ==
    [current EXCEPT !.currentPage =
         Num(PageUpdater(button, rendered.currentPage.v, renderedPageCount))]

\* setCurrentPage(page) with a function: the state updater React queues,
\* applied to the state the queue has produced so far
SetPageBy(current, rendered, button, renderedPageCount) ==
    [current EXCEPT !.currentPage =
         Num(PageUpdater(button, current.currentPage.v, renderedPageCount))]

\* the queue of n updaters of one button, processed in order
RECURSIVE ProcessQueue(_, _, _, _, _)
ProcessQueue(current, rendered, button, renderedPageCount, n) ==
    IF n = 0 THEN current
    ELSE ProcessQueue(SetPageBy(current, rendered, button, renderedPageCount),
                      rendered, button, renderedPageCount, n - 1)

\* the button as rendered: both are absent below two pages, and each is
\* disabled on its last page
ButtonEnabled(button) ==
    /\ pageCount(products, tableState) > 1
    /\ tableState.currentPage.v #
           (IF button = "next" THEN pageCount(products, tableState) ELSE 1)

\* n clicks on one button, all handled before the list renders again
PageClicks(button, n) ==
    /\ Mounted
    /\ ButtonEnabled(button)
    /\ Commit(products,
              ProcessQueue(tableState, tableState, button,
                           pageCount(products, tableState), n),
              IF n = 1 THEN button ELSE "repeated " \o button)
    /\ AppUnchanged

\* the first n products, up to three pages of them
ClickCollections ==
    { [i \in 1..n |-> Product(i)] : n \in 0..(2 * ItemsPerPage + 1) }

InitClicks ==
    /\ products \in ClickCollections
    /\ currentView = "inventory"
    /\ initialSearchTerm = Empty
    /\ tableState = getInitialState(Empty, NoItem)
    /\ storage = JsonStringify(tableState)
    /\ lastSaved = tableState
    /\ savedBy = "handleSetCurrentView"
    /\ renderError = FALSE
    /\ quotaExceeded = FALSE
    /\ records = <<>>
    /\ listState = NoList
    /\ selectedIds = {}
    /\ InitRemote

NextClicks ==
    \/ \E term \in SearchTerms : setSearchTerm(term)
    \/ \E category \in CategoryValues : setCategoryFilter(category)
    \/ \E key \in SortKeys : requestSort(key)
    \/ \E page \in PageInputs : setCurrentPage(page)
    \/ \E button \in PageButtons, n \in 1..MaxClicks : PageClicks(button, n)

SpecClicks == InitClicks /\ [][NextClicks]_vars

\* C23: k clicks on Next handled before any render end on page
\* min(p + k, totalPages), and k clicks on Previous on max(p - k, 1), for p
\* the page they start from: every click sees the page of the one before.
C23_RapidClicksDoNotRace ==
    [][ \A n \in 1..MaxClicks :
            /\ PageClicks("next", n) =>
                   tableState'.currentPage =
                       Num(Min(tableState.currentPage.v + n, pageCount(products, tableState)))
            /\ PageClicks("previous", n) =>
                   tableState'.currentPage = Num(Max(tableState.currentPage.v - n, 1)) ]_vars

\* several clicks on Next have moved a list of three pages to its last page
\* while the search box holds a term that keeps every product
C23_Witness ==
    /\ Mounted
    /\ savedBy = "repeated next"
    /\ pageCount(products, tableState) = 3
    /\ tableState.currentPage = Num(3)
    /\ lastSaved = tableState

----------------------------------------------------------------------------
(* ProductList: the selection of rows *)

\* the ids of the rows of the page shown, each with its checkbox
VisibleIds == IdsOf(paginatedData(products, tableState))

\* handleSelectOne(id): the checkbox of a row
handleSelectOne(id) ==
    /\ Mounted
    /\ id \in VisibleIds
    /\ selectedIds' = IF id \in selectedIds THEN selectedIds \ {id} ELSE selectedIds \cup {id}
    /\ UNCHANGED <<products, currentView, initialSearchTerm, tableState, storage, lastSaved,
                   savedBy, renderError, quotaExceeded, records, listState, remote>>

\* handleSelectAll(e): the checkbox of the table header
handleSelectAll(checked) ==
    /\ Mounted
    /\ selectedIds' = IF checked THEN VisibleIds ELSE {}
    /\ UNCHANGED <<products, currentView, initialSearchTerm, tableState, storage, lastSaved,
                   savedBy, renderError, quotaExceeded, records, listState, remote>>

\* the products "Export Selected" writes and "Delete Selected" hands to
\* onBulkDelete
ActedOn == {products[i].id : i \in {k \in 1..Len(products) : products[k].id \in selectedIds}}

NextSelect ==
    \/ \E id \in ProductIds : handleSelectOne(id)
    \/ \E checked \in BOOLEAN : handleSelectAll(checked)
    \/ \E term \in SearchTerms : setSearchTerm(term)
    \/ \E category \in CategoryValues : setCategoryFilter(category)
    \/ \E key \in SortKeys : requestSort(key)
    \/ PreviousPage
    \/ NextPage
    \/ \E id \in ProductIds : onProductInsert(id)
    \/ \E id \in ProductIds : onProductDelete(id)

SpecSelect == InitTable /\ [][NextSelect]_vars

\* C24: the selected ids are always ids of rows of the page shown, so that
\* "Delete Selected" and "Export Selected" act on visible rows only.
C24_SelectionIsVisible ==
    Mounted => (selectedIds \subseteq VisibleIds /\ ActedOn \subseteq VisibleIds)

----------------------------------------------------------------------------
(* The Reset button of the request, adjustment and audit-log lists *)

ResetScreens == {"requests", "adjustments", "audit-log"}

\* the tabs of RequestList
setActiveTab(tabId) ==
    /\ currentView = "requests"
    /\ ListCommit([listState EXCEPT !.activeTab = tabId])

\* a screen in use: a start date has been typed
InitReset ==
    /\ currentView \in ResetScreens
    /\ initialSearchTerm = Empty
    /\ renderError = FALSE
    /\ quotaExceeded = FALSE
    /\ savedBy = "handleSetCurrentView"
    /\ products = <<>>
    /\ tableState = Unmounted
    /\ records \in RecordCollections(currentView)
    /\ listState \in { [ListDefaults(currentView) EXCEPT !.startDate = text] :
                           text \in RangeTexts \ {<<>>} }
    /\ storage = NoItem
    /\ lastSaved = tableState
    /\ selectedIds = {}
    /\ InitRemote

\* the date inputs take the texts that name a day
NextReset ==
    \/ \E text \in RangeTexts \ {<<>>} : setStartDate(text)
    \/ \E value \in ListFilterValues(currentView) : setListFilter(value)
    \/ \E key \in ListSortKeys(currentView) : listRequestSort(key)
    \/ \E tabId \in {"history", "pickup"} : setActiveTab(tabId)
    \/ handleReset

SpecReset == InitReset /\ [][NextReset]_vars

\* the fields of the screen that are filters
FiltersCleared(s) ==
    /\ s.startDate = <<>>
    /\ s.endDate = <<>>
    /\ currentView = "requests" => s.statusFilter = ALL
    /\ currentView = "adjustments" => s.reasonFilter = ALL
    /\ currentView = "audit-log" =>
           (s.userFilter = <<>> /\ s.actionFilter = <<>> /\ s.currentPage = 1)

\* C25: on the request, adjustment and audit-log lists Reset clears the
\* filter fields (on the audit log the page too) and changes nothing else:
\* sortConfig is what it was, and so is activeTab on the request list.
C25_ResetKeepsSort ==
    [][ (currentView \in ResetScreens /\ handleReset) =>
            /\ FiltersCleared(listState')
            /\ listState'.sortConfig = listState.sortConfig
            /\ currentView = "requests" => listState'.activeTab = listState.activeTab
            /\ DOMAIN listState' = DOMAIN listState ]_vars

\* the request list has been sorted by priority and filtered, and Reset has
\* emptied the start date, which no input of this specification can do
C25_Witness ==
    /\ currentView = "requests"
    /\ Len(records) = MaxRecords
    /\ listState.sortConfig = [key |-> "priority", direction |-> ASC]
    /\ listState.activeTab = "history"
    /\ FiltersCleared(listState)

----------------------------------------------------------------------------
(* Realtime events on the collections of App *)

\* a.requestDate || a.date || a.timestamp
DateField(record) ==
    IF "requestDate" \in DOMAIN record THEN record.requestDate
    ELSE IF "date" \in DOMAIN record THEN record.date
    ELSE record.timestamp

\* sortByDateDesc: [...arr].sort((a, b) => dateB - dateA)
sortByDateDesc(arr) ==
    StableSortBy(arr, [a, b \in Elements(arr) |-> CompareDates(DateField(a), DateField(b), -1)])

\* INSERT on audit_logs, the only event the audit-log channel listens to
onAuditLogInsert(id) ==
    LET newLogs == IF id \in IdsOf(records) THEN records
                   ELSE sortByDateDesc(records \o <<AuditLog(id)>>)
    IN  /\ currentView = "audit-log"
        /\ records' = RenderList(currentView, newLogs, listState).input
        /\ UNCHANGED <<products, currentView, initialSearchTerm, tableState, storage, lastSaved,
                       savedBy, renderError, quotaExceeded, listState, selectedIds, remote>>

\* the audit log is shown; App holds any products and any logs
InitRealtime ==
    /\ products \in Collections
    /\ currentView = "audit-log"
    /\ initialSearchTerm = Empty
    /\ tableState = Unmounted
    /\ storage = NoItem
    /\ lastSaved = Unmounted
    /\ savedBy = "none"
    /\ renderError = FALSE
    /\ quotaExceeded = FALSE
    /\ records \in RecordCollections("audit-log")
    /\ listState = ListDefaults("audit-log")
    /\ selectedIds = {}
    /\ InitRemote

\* events arrive in any order and any number of times, for ids App holds
\* and for ids it does not
NextRealtime ==
    \/ \E id \in ProductIds : onProductInsert(id)
    \/ \E id \in ProductIds : onProductUpdate(UpdatedProduct(id))
    \/ \E id \in ProductIds : onProductUpdate(Product(id))
    \/ \E id \in ProductIds : onProductDelete(id)
    \/ \E id \in 1..MaxRecords : onAuditLogInsert(id)

SpecRealtime == InitRealtime /\ [][NextRealtime]_vars

\* no two elements of the collection have the same id
UniqueIds(arr) == Cardinality(IdsOf(arr)) = Len(arr)

\* the elements of the collection whose id is not the one given
Others(arr, id) == {arr[i] : i \in {k \in 1..Len(arr) : arr[k].id # id}}

\* C26: realtime events keep the ids of a collection unique: an INSERT of an
\* id the collection holds changes nothing, an UPDATE replaces the record of
\* that id and no other, a DELETE removes the record of that id and no other.
C26_RealtimeKeepsIdsUnique ==
    [][ (UniqueIds(products) /\ UniqueIds(records)) =>
            /\ UniqueIds(products') /\ UniqueIds(records')
            /\ \A id \in ProductIds :
                   /\ (id \in IdsOf(products) /\ onProductInsert(id)) => products' = products
                   /\ onProductUpdate(UpdatedProduct(id)) =>
                          /\ IdsOf(products') = IdsOf(products)
                          /\ Others(products', id) = Others(products, id)
                          /\ id \in IdsOf(products) => UpdatedProduct(id) \in Elements(products')
                   /\ onProductDelete(id) =>
                          /\ Elements(products') = Others(products, id)
                          /\ Len(products') = Cardinality(Others(products, id))
            /\ \A id \in 1..MaxRecords :
                   (id \in IdsOf(records) /\ records' # records) => ~onAuditLogInsert(id) ]_vars

\* App holds every product, one of them as an UPDATE has left it, and
\* every audit log
C26_Witness ==
    /\ currentView = "audit-log"
    /\ IdsOf(products) = ProductIds
    /\ UniqueIds(products)
    /\ \E i \in 1..Len(products) : products[i] = UpdatedProduct(products[i].id)
    /\ Len(records) = MaxRecords
    /\ UniqueIds(records)

----------------------------------------------------------------------------
(* Stock: request approvals and stock adjustments *)

MaxInFlight == 4        \* realtime events the channel of a session can hold
MaxAdjustments == 1     \* rows of the stock_adjustments table

\* quantityChange values typed into the adjustment form
QuantityChanges == {-4, 1}

\* the product chosen in the adjustment form
AdjustedProducts == {1}

\* arr.find(item => item.id === id), for an id the array holds
ById(arr, id) == arr[CHOOSE i \in 1..Len(arr) : arr[i].id = id]

\* the payload of the UPDATE event of a products row
ProductEvent(id, quantity) ==
    [new |-> [Product(id) EXCEPT !.quantity = quantity], table |-> "products"]

\* the payload of the UPDATE event of a requests row
RequestEvent(request) == [new |-> request, table |-> "requests"]

\* the events reach session 1, the session whose products and requests are
\* modelled
Broadcast(events) == [channel EXCEPT ![1] = @ \o events]

\* the requests as the table holds them before any is decided
PendingRequest(i) == [Request(i) EXCEPT !.status = "Pending Approval"]

\* the first checks of handleConfirmApprove: the product is not in the
\* products state, or holds less than the request asks for
ApprovalRefused(requestToAction) ==
    \/ requestToAction.productId \notin IdsOf(products)
    \/ ById(products, requestToAction.productId).quantity < requestToAction.quantity

\* handleConfirmApprove, for the request of the Approve button clicked; the
\* two writes are taken in one step
handleConfirmApprove(requestToAction) ==
    /\ ~renderError
    /\ currentView = "requests"
    /\ currentUser[1].role \in ApproverRoles
    /\ requestToAction \in Elements(records)
    /\ requestToAction.status = "Pending Approval"
    /\ IF ApprovalRefused(requestToAction)
       THEN UNCHANGED <<database, channel>>
       ELSE /\ Len(channel[1]) + 2 <= MaxInFlight
            /\ database' =
                 [database EXCEPT
                    !.quantity[requestToAction.productId] =
                        ById(products, requestToAction.productId).quantity
                            - requestToAction.quantity,
                    !.requests[requestToAction.id] = "Approved"]
            /\ channel' =
                 Broadcast(<< ProductEvent(requestToAction.productId,
                                  ById(products, requestToAction.productId).quantity
                                      - requestToAction.quantity),
                              RequestEvent([requestToAction EXCEPT !.status = "Approved"]) >>)
    /\ UNCHANGED <<products, currentView, initialSearchTerm, tableState, storage, lastSaved,
                   savedBy, renderError, quotaExceeded, records, listState, selectedIds,
                   users, currentUser>>

\* handleSaveStockAdjustment without the check of the new quantity
AdjustmentOutcome_noStockCheck(productId, quantityChange) ==
    IF productId \notin IdsOf(products) THEN "Product not found" ELSE "saved"

\* what handleSaveStockAdjustment does with the adjustment: the Error it
\* throws before any write, or "saved"
AdjustmentOutcome(productId, quantityChange) ==
    IF productId \notin IdsOf(products) THEN "Product not found"
    ELSE IF ById(products, productId).quantity + quantityChange < 0 THEN "Negative stock"
    ELSE "saved"

\* handleSaveStockAdjustment(adjustmentData)
handleSaveStockAdjustment(productId, quantityChange) ==
    /\ ~renderError
    /\ IF AdjustmentOutcome(productId, quantityChange) # "saved"
       THEN UNCHANGED <<database, channel>>
       ELSE /\ Len(channel[1]) < MaxInFlight
            /\ Len(database.adjustments) < MaxAdjustments
            /\ database' =
                 [database EXCEPT
                    !.adjustments = Append(@, [productId |-> productId,
                                               quantityChange |-> quantityChange]),
                    !.quantity[productId] = ById(products, productId).quantity + quantityChange]
            /\ channel' =
                 Broadcast(<< ProductEvent(productId,
                                  ById(products, productId).quantity + quantityChange) >>)
    /\ UNCHANGED <<products, currentView, initialSearchTerm, tableState, storage, lastSaved,
                   savedBy, renderError, quotaExceeded, records, listState, selectedIds,
                   users, currentUser>>

\* the oldest event on the way to session 1 arrives: the UPDATE case of
\* setupSubscription for its table
onRealtimeUpdate ==
    /\ ~renderError
    /\ channel[1] # <<>>
    /\ Head(channel[1]).table \in {"products", "requests"}
    /\ IF Head(channel[1]).table = "products"
       THEN /\ products' = sortByName(ReplaceById(products, Head(channel[1]).new))
            /\ ProductListProps(sortByName(ReplaceById(products, Head(channel[1]).new)), TRUE)
            /\ UNCHANGED records
       ELSE /\ records' = RenderList(currentView,
                                     sortByDateDesc(ReplaceById(records, Head(channel[1]).new)),
                                     listState).input
            /\ UNCHANGED <<products, tableState, storage, lastSaved, savedBy, renderError,
                           selectedIds>>
    /\ channel' = [channel EXCEPT ![1] = Tail(@)]
    /\ UNCHANGED <<currentView, initialSearchTerm, quotaExceeded, listState, database, users,
                   currentUser>>

\* the request list is shown over the pending requests; App holds the
\* catalogue, or the catalogue without product 2
InitStock ==
    /\ products \in {Rows(ProductIds), Rows(ProductIds \ {2})}
    /\ currentView = "requests"
    /\ initialSearchTerm = Empty
    /\ tableState = Unmounted
    /\ storage = NoItem
    /\ lastSaved = Unmounted
    /\ savedBy = "none"
    /\ renderError = FALSE
    /\ quotaExceeded = FALSE
    /\ records = sortByDateDesc([i \in 1..MaxRecords |-> PendingRequest(i)])
    /\ listState = ListDefaults("requests")
    /\ selectedIds = {}
    /\ InitRemote

NextApprovals ==
    \/ \E i \in RequestIds : handleConfirmApprove(PendingRequest(i))
    \/ onRealtimeUpdate

SpecApprovals == InitStock /\ [][NextApprovals]_vars

NextStock ==
    \/ \E i \in RequestIds : handleConfirmApprove(PendingRequest(i))
    \/ \E productId \in AdjustedProducts, quantityChange \in QuantityChanges :
           handleSaveStockAdjustment(productId, quantityChange)
    \/ onRealtimeUpdate

SpecStock == InitStock /\ [][NextStock]_vars

\* the quantities of the requests of a product that the table holds as
\* approved, summed over the ids up to the one given
RECURSIVE ApprovedSum(_, _)
ApprovedSum(productId, upTo) ==
    IF upTo = 0 THEN 0
    ELSE ApprovedSum(productId, upTo - 1)
             + (IF /\ database.requests[upTo] = "Approved"
                   /\ Request(upTo).productId = productId
                THEN Request(upTo).quantity ELSE 0)

\* C27: when every approval has completed and every event has arrived, the
\* stored quantity of each product is its initial quantity minus the sum of
\* the quantities of its approved requests.
C27_StockConserved ==
    channel[1] = <<>> =>
        \A productId \in ProductIds :
            database.quantity[productId]
                = Product(productId).quantity - ApprovedSum(productId, MaxRecords)

\* the quantity App knows for the product is below the amount given, or
\* App does not know the product
KnownBelow(productId, amount) ==
    \A k \in 1..Len(products) : products[k].id = productId => products[k].quantity < amount

\* C28: no approval and no adjustment writes a negative quantity: an
\* approval of a request for a product that is missing or known to hold
\* less than the request asks writes nothing, and an adjustment that would
\* take the known quantity below zero throws and writes nothing: no
\* quantity, no request status, no adjustment record.
C28_NoNegativeStock ==
    [][ /\ \A productId \in ProductIds : database'.quantity[productId] >= 0
        /\ \A i \in RequestIds :
               ( /\ handleConfirmApprove(PendingRequest(i))
                 /\ KnownBelow(Request(i).productId, Request(i).quantity) )
               => database' = database
        /\ \A productId \in AdjustedProducts, quantityChange \in QuantityChanges :
               ( /\ handleSaveStockAdjustment(productId, quantityChange)
                 /\ productId \in IdsOf(products)
                 /\ KnownBelow(productId, 0 - quantityChange) )
               => /\ database' = database
                  /\ AdjustmentOutcome(productId, quantityChange) = "Negative stock" ]_vars

\* a request has been approved and an adjustment saved, and App shows a
\* pending request its known stock does not cover and knows a product the
\* adjustment of -4 would take below zero
C28_Witness ==
    /\ currentView = "requests"
    /\ database.adjustments # <<>>
    /\ \E i \in RequestIds : database.requests[i] = "Approved"
    /\ \E i \in RequestIds :
           /\ PendingRequest(i) \in Elements(records)
           /\ Request(i).productId \in IdsOf(products)
           /\ ApprovalRefused(PendingRequest(i))
    /\ \E productId \in IdsOf(products) : AdjustmentOutcome(productId, -4) = "Negative stock"

----------------------------------------------------------------------------
(* User administration, in the two sessions *)

\* roles picked in the role select of a user row
RoleInputs == {MANAGER, SUPER_ADMIN}

\* users.filter(u => u.role === role).length, in the users state of the session
RoleCount(session, role) ==
    Cardinality({i \in 1..Len(users[session]) : users[session][i].role = role})

\* AdminPanel is rendered: mainContent shows it to these roles only
AdminPanelShown(session) ==
    /\ currentUser[session].role \in ApproverRoles
    /\ session = 1 => (currentView = "admin" /\ ~renderError)

\* canModify of a user row
canModify(session, user) ==
    \/ currentUser[session].role = SUPER_ADMIN
    \/ (currentUser[session].role = MANAGER /\ user.role # SUPER_ADMIN)

\* the role select of the row takes newRole: it is enabled, it offers the
\* role, and handleOpenRoleChangeModal goes on
RoleSelectable(session, user, newRole) ==
    /\ canModify(session, user)
    /\ currentUser[session].id # user.id
    /\ newRole = SUPER_ADMIN =>
           (user.role = SUPER_ADMIN \/ currentUser[session].role = SUPER_ADMIN)
    /\ user.role # newRole

\* the checks of handleUpdateUserRole, made on the users state of the session
RoleChangeRefused(session, userToUpdate, newRole) ==
    \/ /\ (newRole = SUPER_ADMIN \/ userToUpdate.role = SUPER_ADMIN)
       /\ currentUser[session].role # SUPER_ADMIN
    \/ /\ userToUpdate.role = SUPER_ADMIN /\ newRole # SUPER_ADMIN
       /\ RoleCount(session, SUPER_ADMIN) <= 1
    \/ /\ userToUpdate.role = MANAGER /\ newRole # MANAGER
       /\ RoleCount(session, MANAGER) <= 1

\* an event of the users table goes to every session
BroadcastUsers(event) == [s \in Sessions |-> channel[s] \o <<event>>]

ChannelsHaveRoom == \A s \in Sessions : Len(channel[s]) < MaxInFlight

UsersUnchanged ==
    UNCHANGED <<products, currentView, initialSearchTerm, tableState, storage, lastSaved,
                savedBy, renderError, quotaExceeded, records, listState, selectedIds>>

\* handleUpdateUserRole(userId, newRole) in a session, after the role select
\* of the row and the confirmation; update().eq('id', userId).single() fails
\* when the row is gone
handleUpdateUserRole(session, userId, newRole) ==
    /\ AdminPanelShown(session)
    /\ userId \in IdsOf(users[session])
    /\ RoleSelectable(session, ById(users[session], userId), newRole)
    /\ IF \/ RoleChangeRefused(session, ById(users[session], userId), newRole)
          \/ database.users[userId] = NoRole
       THEN UNCHANGED <<database, channel>>
       ELSE /\ ChannelsHaveRoom
            /\ database' = [database EXCEPT !.users[userId] = newRole]
            /\ channel' = BroadcastUsers([record |-> User(userId, newRole), table |-> "users",
                                          eventType |-> "UPDATE"])
    /\ UNCHANGED <<users, currentUser>>
    /\ UsersUnchanged

\* handleConfirmDeleteUser in a session, for the user of the Delete button
handleConfirmDeleteUser(session, userId) ==
    /\ AdminPanelShown(session)
    /\ userId \in IdsOf(users[session])
    /\ canModify(session, ById(users[session], userId))
    /\ currentUser[session].id # userId
    /\ IF \/ /\ ById(users[session], userId).role = SUPER_ADMIN
             /\ RoleCount(session, SUPER_ADMIN) <= 1
          \/ database.users[userId] = NoRole
       THEN UNCHANGED <<database, channel>>
       ELSE /\ ChannelsHaveRoom
            /\ database' = [database EXCEPT !.users[userId] = NoRole]
            /\ channel' = BroadcastUsers([record |-> ById(users[session], userId), table |-> "users",
                                          eventType |-> "DELETE"])
    /\ UNCHANGED <<users, currentUser>>
    /\ UsersUnchanged

\* the oldest event on the way to a session arrives: the users subscription
\* (sortByUsername keeps the order of the ids), with its onUpdate callback
onUsersEvent(session) ==
    /\ channel[session] # <<>>
    /\ Head(channel[session]).table = "users"
    /\ channel' = [channel EXCEPT ![session] = Tail(@)]
    /\ IF Head(channel[session]).eventType = "UPDATE"
       THEN /\ users' = [users EXCEPT ![session] =
                             ReplaceById(@, Head(channel[session]).record)]
            /\ currentUser' =
                 IF currentUser[session].id = Head(channel[session]).record.id
                 THEN [currentUser EXCEPT ![session] = Head(channel[session]).record]
                 ELSE currentUser
       ELSE /\ users' = [users EXCEPT ![session] =
                             SelectSeq(@, LAMBDA item :
                                 item.id # Head(channel[session]).record.id)]
            /\ UNCHANGED currentUser
    /\ UNCHANGED database
    /\ UsersUnchanged

\* both sessions have the admin panel open; the users are Managers and
\* Super Admins, one Super Admin at least
InitUsers ==
    /\ products = <<>>
    /\ currentView = "admin"
    /\ initialSearchTerm = Empty
    /\ tableState = Unmounted
    /\ storage = NoItem
    /\ lastSaved = Unmounted
    /\ savedBy = "none"
    /\ renderError = FALSE
    /\ quotaExceeded = FALSE
    /\ records = <<>>
    /\ listState = NoList
    /\ selectedIds = {}
    /\ \E roles \in [UserIds -> {MANAGER, SUPER_ADMIN}] :
           /\ \E i \in UserIds : roles[i] = SUPER_ADMIN
           /\ Remote(roles)

NextUsers ==
    \/ \E session \in Sessions, userId \in UserIds, newRole \in RoleInputs :
           handleUpdateUserRole(session, userId, newRole)
    \/ \E session \in Sessions, userId \in UserIds : handleConfirmDeleteUser(session, userId)
    \/ \E session \in Sessions : onUsersEvent(session)

SpecUsers == InitUsers /\ [][NextUsers]_vars

\* C29: a users table with a Super Admin keeps one through every
\* handleUpdateUserRole and handleConfirmDeleteUser, and a session whose user
\* is no Super Admin neither makes a Super Admin nor changes the role of one.
C29_SuperAdminRemains ==
    [][ /\ (\E i \in UserIds : database.users[i] = SUPER_ADMIN)
               => (\E i \in UserIds : database'.users[i] = SUPER_ADMIN)
        /\ \A session \in Sessions, userId \in UserIds, newRole \in RoleInputs :
               ( /\ handleUpdateUserRole(session, userId, newRole)
                 /\ currentUser[session].role # SUPER_ADMIN
                 /\ database' # database )
               => /\ newRole # SUPER_ADMIN
                  /\ ById(users[session], userId).role # SUPER_ADMIN ]_vars

----------------------------------------------------------------------------
(* Access to the views by role *)

\* View (types.ts)
AllViews ==
    {"dashboard", "inventory", "requests", "purchase-orders", "adjustments", "vendors",
     "reports", "admin", "audit-log"}

\* roles an administrator gives to the user of session 1
AccessRoleInputs == {VIEWER, STAFF, MANAGER}

\* the role of a users row is written and the realtime UPDATE reaches
\* session 1 at once: the UPDATE case of the users subscription with its
\* onUpdate callback
onUserUpdate(record) ==
    /\ database.users[record.id] # NoRole
    /\ database' = [database EXCEPT !.users[record.id] = record.role]
    /\ users' = [users EXCEPT ![1] = ReplaceById(@, record)]
    /\ currentUser' = IF currentUser[1].id = record.id
                      THEN [currentUser EXCEPT ![1] = record]
                      ELSE currentUser
    /\ UNCHANGED channel
    /\ UsersUnchanged

\* the screen mainContent renders for a view and the role of currentUser
mainContent(view, role) ==
    IF view \in {"admin", "audit-log"} /\ role \notin ApproverRoles THEN "dashboard" ELSE view

\* session 1 has just signed in with any role; user 2 is a Super Admin
InitAccess ==
    /\ products = <<>>
    /\ currentView = "dashboard"
    /\ initialSearchTerm = Empty
    /\ tableState = Unmounted
    /\ storage = NoItem
    /\ lastSaved = Unmounted
    /\ savedBy = "none"
    /\ renderError = FALSE
    /\ quotaExceeded = FALSE
    /\ records = <<>>
    /\ listState = NoList
    /\ selectedIds = {}
    /\ \E roles \in [UserIds -> {VIEWER, STAFF, SUPERVISOR, MANAGER, SUPER_ADMIN}] :
           /\ \A i \in UserIds \ {1} : roles[i] = SUPER_ADMIN
           /\ Remote(roles)

NextAccess ==
    \/ \E view \in AllViews : handleSetCurrentView(view)
    \/ \E text \in BarcodeTexts : handleBarcodeScanned(text)
    \/ \E newRole \in AccessRoleInputs : onUserUpdate(User(1, newRole))

SpecAccess == InitAccess /\ [][NextAccess]_vars

\* the screens a role may not be shown
Forbidden(role) ==
    (IF role = VIEWER
     THEN {"requests", "purchase-orders", "reports", "adjustments", "admin", "audit-log"}
     ELSE {})
    \cup (IF role \in ApproverRoles THEN {} ELSE {"admin", "audit-log"})

\* C30: the screen shown is never one the current role of the user may not
\* see, after navigation, barcode scans and realtime updates of the role;
\* a navigation that is refused leaves currentView as it is.
C30_ViewAccessByRole ==
    [][ /\ mainContent(currentView', currentUser'[1].role) \notin Forbidden(currentUser'[1].role)
        /\ \A view \in AllViews :
               (handleSetCurrentView(view) /\ view \in Forbidden(currentUser[1].role))
                   => currentView' = currentView ]_vars

====
